---- MODULE Spec2Model ----
(***************************************************************************)
(* Distro detection of virtinst/urldetect.py: the metadata cache, the      *)
(* per-family detectors, the dispatcher getDistroStore and the boot-ISO    *)
(* acquisition, as a state machine.                                        *)
(*                                                                         *)
(* A Python str is a TLA+ string (a sequence of characters: Len, SubSeq    *)
(* and \o apply); an optional value is None or Some(x); an operation that  *)
(* can raise returns a record whose exc field names the exception ("" for  *)
(* none).                                                                  *)
(***************************************************************************)
EXTENDS Integers, Sequences, FiniteSets, TLC

(***************************************************************************)
(* Python str operations used by the detectors                             *)
(***************************************************************************)
None == <<>>
Some(x) == <<x>>
IsNone(o) == o = <<>>
Val(o) == o[1]

NoExc == ""

\* "v = e; body": e is evaluated once and named in body
Let(e, body(_)) == body(e)

\* s[i], 1-based
At(s, i) == SubSeq(s, i, i)

\* s[a:b] with 1-based inclusive bounds; "" when a > b
Slice(s, a, b) == IF a > b THEN "" ELSE SubSeq(s, a, b)

\* whether sub occurs in s at position i
OccursAt(s, sub, i) ==
    i + Len(sub) - 1 <= Len(s) /\ SubSeq(s, i, i + Len(sub) - 1) = sub

\* str.startswith
startswith(s, p) == OccursAt(s, p, 1)

\* str.endswith
endswith(s, p) == Len(p) <= Len(s) /\ OccursAt(s, p, Len(s) - Len(p) + 1)

\* positions at which sub occurs in s
Occurrences(s, sub) ==
    {i \in 1..(Len(s) - Len(sub) + 1) : SubSeq(s, i, i + Len(sub) - 1) = sub}

\* "sub in s"
contains(s, sub) ==
    \E i \in 1..(Len(s) - Len(sub) + 1) : SubSeq(s, i, i + Len(sub) - 1) = sub

\* str.find, 1-based; 0 when absent
find(s, sub) ==
    Let(Occurrences(s, sub), LAMBDA occ :
        IF occ = {} THEN 0 ELSE CHOOSE i \in occ : \A j \in occ : i <= j)

\* str.rfind, 1-based; 0 when absent
rfind(s, sub) ==
    Let(Occurrences(s, sub), LAMBDA occ :
        IF occ = {} THEN 0 ELSE CHOOSE i \in occ : \A j \in occ : i >= j)

\* str.count for a one-character separator
count(s, ch) == Cardinality(Occurrences(s, ch))

\* str.split(sep): every piece, sep a single character
RECURSIVE split(_, _)
split(s, ch) ==
    Let(find(s, ch), LAMBDA i :
        IF i = 0 THEN <<s>>
        ELSE <<Slice(s, 1, i - 1)>> \o split(Slice(s, i + 1, Len(s)), ch))

\* str.split(sep, 1)
split1(s, ch) ==
    Let(find(s, ch), LAMBDA i :
        IF i = 0 THEN <<s>>
        ELSE <<Slice(s, 1, i - 1), Slice(s, i + 1, Len(s))>>)

\* str.rsplit(sep, 1)
rsplit1(s, ch) ==
    Let(rfind(s, ch), LAMBDA i :
        IF i = 0 THEN <<s>>
        ELSE <<Slice(s, 1, i - 1), Slice(s, i + 1, Len(s))>>)

Whitespace == {" ", "\n", "\t"}

RECURSIVE lstrip(_)
lstrip(s) ==
    IF Len(s) > 0 /\ At(s, 1) \in Whitespace
    THEN lstrip(Slice(s, 2, Len(s))) ELSE s

RECURSIVE rstrip(_)
rstrip(s) ==
    IF Len(s) > 0 /\ At(s, Len(s)) \in Whitespace
    THEN rstrip(Slice(s, 1, Len(s) - 1)) ELSE s

\* str.strip
strip(s) == rstrip(lstrip(s))

\* str.splitlines: no empty last line after a final newline
splitlines(s) ==
    Let(split(s, "\n"), LAMBDA parts :
        IF parts[Len(parts)] = "" THEN SubSeq(parts, 1, Len(parts) - 1)
        ELSE parts)

\* str.split() with no argument: the words between runs of whitespace
RECURSIVE split_ws(_)
split_ws(s) ==
    Let(lstrip(s), LAMBDA t :
    Let({i \in 1..Len(t) : At(t, i) \in Whitespace}, LAMBDA ends :
    Let(CHOOSE i \in ends : \A j \in ends : i <= j, LAMBDA e :
        IF t = "" THEN <<>>
        ELSE IF ends = {} THEN <<t>>
        ELSE <<Slice(t, 1, e - 1)>> \o split_ws(Slice(t, e + 1, Len(t))))))

Digits == <<"0", "1", "2", "3", "4", "5", "6", "7", "8", "9">>

DigitChars == {Digits[i] : i \in 1..Len(Digits)}

DigitVal(c) == (CHOOSE i \in 1..Len(Digits) : Digits[i] = c) - 1

\* str.isdigit
isdigit(s) == Len(s) > 0 /\ \A i \in 1..Len(s) : At(s, i) \in DigitChars

RECURSIVE DigitsValue(_)
DigitsValue(s) ==
    IF s = "" THEN 0
    ELSE 10 * DigitsValue(Slice(s, 1, Len(s) - 1)) + DigitVal(At(s, Len(s)))

\* int(s): surrounding whitespace and one sign are accepted, anything else
\* raises ValueError
int(s) ==
    Let(strip(s), LAMBDA t :
    Let(Len(t) > 0 /\ At(t, 1) \in {"+", "-"}, LAMBDA signed :
    Let(IF signed THEN Slice(t, 2, Len(t)) ELSE t, LAMBDA body :
        IF isdigit(body)
        THEN [exc |-> NoExc,
              ret |-> IF signed /\ At(t, 1) = "-" THEN 0 - DigitsValue(body)
                      ELSE DigitsValue(body)]
        ELSE [exc |-> "ValueError", ret |-> 0])))

\* str(n)
RECURSIVE str(_)
str(n) ==
    IF n < 0 THEN "-" \o str(0 - n)
    ELSE IF n < 10 THEN Digits[n + 1]
    ELSE str(n \div 10) \o Digits[(n % 10) + 1]

LowerCase == "abcdefghijklmnopqrstuvwxyz"

UpperCase == "ABCDEFGHIJKLMNOPQRSTUVWXYZ"

\* str.upper of one character
upper(c) ==
    IF contains(LowerCase, c) THEN At(UpperCase, find(LowerCase, c)) ELSE c

\* str.lower of one character
lower(c) ==
    IF contains(UpperCase, c) THEN At(LowerCase, find(UpperCase, c)) ELSE c

\* str.lower
RECURSIVE lowerstr(_)
lowerstr(s) ==
    IF s = "" THEN "" ELSE lower(At(s, 1)) \o lowerstr(Slice(s, 2, Len(s)))

\* str.capitalize
capitalize(s) ==
    IF s = "" THEN "" ELSE upper(At(s, 1)) \o lowerstr(Slice(s, 2, Len(s)))

\* the characters \w matches
WordChars ==
    {At(LowerCase, i) : i \in 1..26} \cup {At(UpperCase, i) : i \in 1..26}
        \cup DigitChars \cup {"_"}

(***************************************************************************)
(* configparser, as far as .treeinfo files use it: [section] headers,      *)
(* "key = value" or "key: value" lines, blank and comment lines            *)
(***************************************************************************)
EmptyConfig == [sections |-> {}, items |-> {}]

RECURSIVE ReadConfigLines(_, _, _)
ReadConfigLines(lines, cursect, cfg) ==
    IF lines = <<>> THEN [exc |-> NoExc, ret |-> cfg]
    ELSE
        Let(strip(Head(lines)), LAMBDA line :
        Let(find(line, "="), LAMBDA eq :
        Let(find(line, ":"), LAMBDA co :
        Let(IF eq = 0 THEN co ELSE IF co = 0 THEN eq
            ELSE IF eq < co THEN eq ELSE co, LAMBDA d :
            IF line = "" \/ At(line, 1) \in {"#", ";"}
            THEN ReadConfigLines(Tail(lines), cursect, cfg)
            ELSE IF At(line, 1) = "[" /\ At(line, Len(line)) = "]"
            THEN Let(Slice(line, 2, Len(line) - 1), LAMBDA name :
                     ReadConfigLines(Tail(lines), Some(name),
                        [cfg EXCEPT !.sections = @ \cup {name}]))
            ELSE IF IsNone(cursect)
            THEN [exc |-> "MissingSectionHeaderError", ret |-> cfg]
            ELSE IF d = 0
            THEN [exc |-> "ParsingError", ret |-> cfg]
            ELSE ReadConfigLines(Tail(lines), cursect,
                    [cfg EXCEPT !.items = @ \cup
                        {<<Val(cursect), strip(Slice(line, 1, d - 1)),
                           strip(Slice(line, d + 1, Len(line)))>>}])))))

\* SafeConfigParser().read_string(text)
read_string(text) == ReadConfigLines(splitlines(text), None, EmptyConfig)

\* parser.has_option(section, option)
has_option(cfg, section, option) ==
    \E it \in cfg.items : it[1] = section /\ it[2] = option

\* a get that returns "" for a missing section or option instead of raising
get_fallback(cfg, section, option) ==
    IF section \in cfg.sections /\ has_option(cfg, section, option)
    THEN [exc |-> NoExc,
          ret |-> (CHOOSE it \in cfg.items :
                        it[1] = section /\ it[2] = option)[3]]
    ELSE [exc |-> NoExc, ret |-> ""]

\* parser.get(section, option)
get(cfg, section, option) ==
    IF section \notin cfg.sections
    THEN [exc |-> "NoSectionError", ret |-> ""]
    ELSE IF ~has_option(cfg, section, option)
    THEN [exc |-> "NoOptionError", ret |-> ""]
    ELSE [exc |-> NoExc,
          ret |-> (CHOOSE it \in cfg.items :
                        it[1] = section /\ it[2] = option)[3]]

(***************************************************************************)
(* re.match for the patterns of this module.  A pattern ".*(A|B).*" is     *)
(* [prefix |-> FALSE, alts |-> {A, B}], a pattern "A.*" is                 *)
(* [prefix |-> TRUE, alts |-> {A}]; "." does not match a newline, so only  *)
(* the text before the first newline can match.                            *)
(***************************************************************************)
re_match(regex, s) ==
    Let(IF contains(s, "\n") THEN split(s, "\n")[1] ELSE s, LAMBDA first :
        \E alt \in regex.alts :
            IF regex.prefix THEN startswith(first, alt)
            ELSE contains(first, alt))

\* re.match(r'i[4-9]86', s)
re_match_ix86(s) ==
    /\ Len(s) >= 4
    /\ At(s, 1) = "i"
    /\ At(s, 2) \in {"4", "5", "6", "7", "8", "9"}
    /\ At(s, 3) = "8"
    /\ At(s, 4) = "6"

\* re.match("^.*:.*,openSUSE$", s), s without newline
re_match_cpe_opensuse(s) ==
    /\ ~contains(s, "\n")
    /\ endswith(s, ",openSUSE")
    /\ contains(Slice(s, 1, Len(s) - Len(",openSUSE")), ":")

(***************************************************************************)
(* The transport (fetcher) and _DistroCache.  w is the world an operation  *)
(* runs in: the cache object, the tree the fetcher reads (a response per   *)
(* path) and the number of acquireFileContent calls made per path.         *)
(***************************************************************************)
MetaPaths ==
    {".treeinfo", "content", "current/images/MANIFEST", "daily/MANIFEST",
     ".disk/info", "VERSION"}

\* _DistroCache.__init__
NewCache ==
    [_filecache |-> [p \in {} |-> None],
     _treeinfo |-> None,
     treeinfo_family |-> None,
     treeinfo_version |-> None,
     suse_content |-> [tag |-> "None"],
     debian_media_type |-> None]

Raise(e, w) == [exc |-> e, ret |-> None, w |-> w]
Return(v, w) == [exc |-> NoExc, ret |-> v, w |-> w]

\* An operation that asks the transport for a path whose answer is not
\* fixed yet stops with this marker, ret naming the path; the step that runs
\* the operation then fixes an answer and runs it again.
Unanswered == "unanswered"

\* fetcher.acquireFileContent(path): the content, or the error it raises
acquireFileContent(w, path) ==
    Let(w.tree[path], LAMBDA r :
    Let([w EXCEPT !.nfetch[path] = @ + 1], LAMBDA w1 :
        IF path \notin DOMAIN w.tree
        THEN [exc |-> Unanswered, ret |-> path, w |-> w]
        ELSE IF r.kind = "ok" THEN Return(r.text, w1) ELSE Raise(r.kind, w1)))

\* acquire_file_content without its _filecache: every call asks the transport
acquire_file_content_uncached(w, path) ==
    Let(acquireFileContent(w, path), LAMBDA f :
        IF f.exc = Unanswered THEN f
        ELSE IF f.exc \notin {NoExc, "ValueError"} THEN Raise(f.exc, f.w)
        ELSE Return(IF f.exc = NoExc THEN Some(f.ret) ELSE None, f.w))

\* acquire_file_content with "except Exception" in place of
\* "except ValueError": every error of the transport becomes an absent value
acquire_file_content_catchall(w, path) ==
    IF path \notin DOMAIN w.cache._filecache
    THEN Let(acquireFileContent(w, path), LAMBDA f :
         Let(IF f.exc = NoExc THEN Some(f.ret) ELSE None, LAMBDA content :
             IF f.exc = Unanswered THEN f
             ELSE Return(content,
                    [f.w EXCEPT !.cache._filecache =
                        [p \in (DOMAIN @) \cup {path} |->
                            IF p = path THEN content ELSE @[p]]])))
    ELSE Return(w.cache._filecache[path], w)

\* _DistroCache.acquire_file_content
acquire_file_content(w, path) ==
    IF path \notin DOMAIN w.cache._filecache
    THEN Let(acquireFileContent(w, path), LAMBDA f :
         Let(IF f.exc = NoExc THEN Some(f.ret) ELSE None, LAMBDA content :
             IF f.exc = Unanswered THEN f
             ELSE IF f.exc \notin {NoExc, "ValueError"} THEN Raise(f.exc, f.w)
             ELSE Return(content,
                    [f.w EXCEPT !.cache._filecache =
                        [p \in (DOMAIN @) \cup {path} |->
                            IF p = path THEN content ELSE @[p]]])))
    ELSE Return(w.cache._filecache[path], w)

\* _DistroCache.treeinfo
treeinfo(w) ==
    IF ~IsNone(w.cache._treeinfo) THEN Return(w.cache._treeinfo, w)
    ELSE
    Let(acquire_file_content(w, ".treeinfo"), LAMBDA a :
        IF a.exc # NoExc THEN a
        ELSE IF IsNone(a.ret) THEN Return(None, a.w)
        ELSE
        Let(read_string(Val(a.ret)), LAMBDA p :
        Let(get(p.ret, "general", "family"), LAMBDA fam :
            IF p.exc # NoExc THEN Raise(p.exc, a.w)
            ELSE IF fam.exc # NoExc THEN Raise(fam.exc, a.w)
            ELSE
            Let([a.w.cache EXCEPT !.treeinfo_family = Some(fam.ret),
                                  !._treeinfo = Some(p.ret)], LAMBDA c1 :
            Let(IF has_option(p.ret, "general", "version")
                THEN [c1 EXCEPT !.treeinfo_version =
                          Some(get(p.ret, "general", "version").ret)]
                ELSE c1, LAMBDA c2 :
                Return(c2._treeinfo, [a.w EXCEPT !.cache = c2]))))))

\* _DistroCache.treeinfo_family_regex
treeinfo_family_regex(w, famregex) ==
    Let(treeinfo(w), LAMBDA t :
        IF t.exc # NoExc THEN t
        ELSE IF IsNone(t.ret) THEN Return(FALSE, t.w)
        ELSE Return(re_match(famregex, Val(t.w.cache.treeinfo_family)), t.w))

\* _DistroCache.content_regex
content_regex(w, filename, regex) ==
    Let(acquire_file_content(w, filename), LAMBDA a :
        IF a.exc # NoExc THEN a
        ELSE IF IsNone(a.ret) THEN Return(FALSE, a.w)
        ELSE Let(splitlines(Val(a.ret)), LAMBDA lines :
                 Return(\E i \in 1..Len(lines) : re_match(regex, lines[i]),
                        a.w)))

(***************************************************************************)
(* _SUSEContent: the parsed SUSE 'content' file                            *)
(***************************************************************************)
SusePrefixes ==
    <<"LABEL", "DISTRO", "VERSION", "BASEARCHS", "DEFAULTBASE", "REPOID">>

\* dict.get(key), None when the key is missing
DictGet(d, k) == IF k \in DOMAIN d THEN Some(d[k]) ELSE None

\* Python truth of an optional str: None and "" are false
Truthy(o) == ~IsNone(o) /\ Val(o) # ""

DictSet(d, k, v) == [x \in (DOMAIN d) \cup {k} |-> IF x = k THEN v ELSE d[x]]

EmptyDict == [x \in {} |-> ""]

\* the prefix loop of _SUSEContent.__init__ on one line
RECURSIVE content_dict_line(_, _, _)
content_dict_line(d, line, i) ==
    IF i > Len(SusePrefixes) THEN d
    ELSE content_dict_line(
            IF startswith(line, SusePrefixes[i] \o " ")
            THEN DictSet(d, SusePrefixes[i], split1(line, " ")[2])
            ELSE d,
            line, i + 1)

\* the line loop of _SUSEContent.__init__
RECURSIVE content_dict(_, _)
content_dict(d, lines) ==
    IF lines = <<>> THEN d
    ELSE content_dict(content_dict_line(d, Head(lines), 1), Tail(lines))

\* _SUSEContent._get_tree_arch
_get_tree_arch(d) ==
    Let(DictGet(d, "BASEARCHS"), LAMBDA basearchs :
    Let(IF Truthy(basearchs) THEN basearchs
        ELSE DictGet(d, "DEFAULTBASE"), LAMBDA a1 :
    Let(~Truthy(a1) /\ "REPOID" \in DOMAIN d, LAMBDA useRepo :
    Let(rsplit1(d["REPOID"], "/"), LAMBDA parts :
    Let(IF useRepo THEN Some(parts[2]) ELSE a1, LAMBDA a2 :
        IF useRepo /\ Len(parts) < 2 THEN [exc |-> "IndexError", ret |-> None]
        ELSE IF ~Truthy(a2) THEN [exc |-> NoExc, ret |-> None]
        ELSE [exc |-> NoExc,
              ret |-> IF contains(strip(Val(a2)), "i586-x86_64")
                      THEN Some("x86_64") ELSE Some(strip(Val(a2)))])))))

\* _SUSEContent._get_product_name
_get_product_name(d) ==
    IF "LABEL" \in DOMAIN d THEN Some(d["LABEL"])
    ELSE IF "DISTRO" \in DOMAIN d /\ contains(d["DISTRO"], ",")
    THEN Some(rsplit1(d["DISTRO"], ",")[2])
    ELSE None

\* _SUSEContent._get_product_version
_get_product_version(d, product_name) ==
    IF ~Truthy(product_name) THEN [exc |-> NoExc, ret |-> None]
    ELSE
    Let(IF "VERSION" \in DOMAIN d THEN d["VERSION"] ELSE "", LAMBDA v0 :
    Let(IF contains(v0, "-") THEN split1(v0, "-")[1] ELSE v0, LAMBDA v1 :
    Let(v1 = "", LAMBDA needDistro :
    Let(needDistro /\ "DISTRO" \in DOMAIN d
          /\ re_match_cpe_opensuse(d["DISTRO"]), LAMBDA cpe :
    Let(split(strip(rsplit1(d["DISTRO"], ",")[1]), ":"), LAMBDA fields :
    Let(IF cpe THEN fields[5] ELSE v1, LAMBDA v2 :
    Let(Val(product_name), LAMBDA name :
    Let(contains(name, "Enterprise") \/ contains(name, "SLES"), LAMBDA sle :
    Let(split(strip(name), " "), LAMBDA words :
    Let(IF ~sle THEN v2
        ELSE IF Len(words) > 5
        THEN words[5] \o "." \o At(words[6], 3)
        ELSE words[5], LAMBDA v3 :
        IF needDistro /\ "DISTRO" \notin DOMAIN d
        THEN [exc |-> "KeyError", ret |-> None]
        ELSE IF cpe /\ Len(fields) < 5
        THEN [exc |-> "IndexError", ret |-> None]
        ELSE IF sle /\ Len(words) < 5
        THEN [exc |-> "IndexError", ret |-> None]
        ELSE IF sle /\ Len(words) > 5 /\ Len(words[6]) < 3
        THEN [exc |-> "IndexError", ret |-> None]
        ELSE [exc |-> NoExc, ret |-> Some(v3)]))))))))))

\* _SUSEContent.__init__
_SUSEContent(content_str) ==
    Let(content_dict(EmptyDict, splitlines(content_str)), LAMBDA d :
    Let(_get_tree_arch(d), LAMBDA arch :
    Let(_get_product_name(d), LAMBDA name :
    Let(_get_product_version(d, name), LAMBDA ver :
        IF arch.exc # NoExc THEN [exc |-> arch.exc, ret |-> [tag |-> "-1"]]
        ELSE IF ver.exc # NoExc THEN [exc |-> ver.exc, ret |-> [tag |-> "-1"]]
        ELSE [exc |-> NoExc,
              ret |-> [tag |-> "obj",
                       tree_arch |-> arch.ret,
                       product_name |-> name,
                       product_version |-> ver.ret]]))))

(***************************************************************************)
(* The Distro classes: their class attributes, in the order the module     *)
(* defines them (the order globals() lists them)                           *)
(***************************************************************************)
Classes ==
    <<"Distro", "GenericTreeinfoDistro", "FedoraDistro", "RHELDistro",
      "CentOSDistro", "SuseDistro", "SLESDistro", "SLEDDistro",
      "OpensuseDistro", "DebianDistro", "UbuntuDistro", "ALTLinuxDistro",
      "MandrivaDistro">>

ClassSet == {Classes[i] : i \in 1..Len(Classes)}

TreeinfoClasses ==
    {"GenericTreeinfoDistro", "FedoraDistro", "RHELDistro", "CentOSDistro"}

SuseClasses == {"SuseDistro", "SLESDistro", "SLEDDistro", "OpensuseDistro"}

DebianClasses == {"DebianDistro", "UbuntuDistro"}

\* cls.PRETTY_NAME (None on the base class)
PRETTY_NAME(cls) ==
    CASE cls = "Distro" -> None
      [] cls = "GenericTreeinfoDistro" -> Some("Generic Treeinfo")
      [] cls = "FedoraDistro" -> Some("Fedora")
      [] cls = "RHELDistro" -> Some("Red Hat Enterprise Linux")
      [] cls = "CentOSDistro" -> Some("CentOS")
      [] cls \in SuseClasses -> Some("SUSE")
      [] cls = "DebianDistro" -> Some("Debian")
      [] cls = "UbuntuDistro" -> Some("Ubuntu")
      [] cls = "ALTLinuxDistro" -> Some("ALT Linux")
      [] cls = "MandrivaDistro" -> Some("Mandriva/Mageia")

\* cls.urldistro
urldistro(cls) ==
    CASE cls = "FedoraDistro" -> Some("fedora")
      [] cls = "RHELDistro" -> Some("rhel")
      [] cls = "CentOSDistro" -> Some("centos")
      [] cls = "SLESDistro" -> Some("sles")
      [] cls = "SLEDDistro" -> Some("sled")
      [] cls = "OpensuseDistro" -> Some("opensuse")
      [] cls = "DebianDistro" -> Some("debian")
      [] cls = "UbuntuDistro" -> Some("ubuntu")
      [] cls = "ALTLinuxDistro" -> Some("altlinux")
      [] cls = "MandrivaDistro" -> Some("mandriva")
      [] OTHER -> None

\* RHELDistro._variant_prefix
_variant_prefix(cls) == IF cls = "CentOSDistro" THEN "centos" ELSE "rhel"

\* DebianDistro._debname
_debname(cls) == IF cls = "UbuntuDistro" THEN "ubuntu" ELSE "debian"

\* SuseDistro._suse_regex
_suse_regex(cls) ==
    CASE cls = "SLESDistro" ->
            <<[prefix |-> FALSE, alts |-> {"SUSE Linux Enterprise Serve"}],
              [prefix |-> FALSE, alts |-> {"SUSE SLE"}]>>
      [] cls = "SLEDDistro" ->
            <<[prefix |-> FALSE, alts |-> {"SUSE Linux Enterprise Deskto"}]>>
      [] cls = "OpensuseDistro" ->
            <<[prefix |-> FALSE, alts |-> {"openSUSE"}]>>
      [] OTHER -> <<>>

\* the famregex of each tree-descriptor class
famregex(cls) ==
    CASE cls = "FedoraDistro" -> [prefix |-> FALSE, alts |-> {"Fedora"}]
      [] cls = "RHELDistro" ->
            [prefix |-> FALSE, alts |-> {"Red Hat Enterprise Linux", "RHEL"}]
      [] cls = "CentOSDistro" ->
            [prefix |-> FALSE, alts |-> {"CentOS", "Scientific"}]

RECURSIVE SeqRemove(_, _)
\* list.remove(x): drops the first occurrence
SeqRemove(s, x) ==
    IF s = <<>> THEN <<>>
    ELSE IF Head(s) = x THEN Tail(s)
    ELSE <<Head(s)>> \o SeqRemove(Tail(s), x)

IsRegistered(cls) == ~IsNone(PRETTY_NAME(cls))

\* the duplicate-urldistro check of _build_distro_list
HasDuplicateUrldistro(stores) ==
    \E i, j \in 1..Len(stores) :
        /\ i < j
        /\ ~IsNone(urldistro(stores[j]))
        /\ urldistro(stores[i]) = urldistro(stores[j])

\* _build_distro_list
_build_distro_list ==
    Let(SelectSeq(Classes, IsRegistered), LAMBDA allstores :
        Append(SeqRemove(allstores, "GenericTreeinfoDistro"),
               "GenericTreeinfoDistro"))

_allstores == _build_distro_list

\* a prioritizing that appends the hinted store instead of inserting it first
PrioritizedStores_append(hint) ==
    Let(_allstores, LAMBDA stores :
    Let({i \in 1..Len(stores) : urldistro(stores[i]) = hint}, LAMBDA hits :
    Let(stores[CHOOSE i \in hits : \A j \in hits : j <= i], LAMBDA found :
        IF Truthy(hint) /\ hits # {}
        THEN Append(SeqRemove(stores, found), found)
        ELSE stores)))

\* the prioritizing of getDistroStore: the last store whose urldistro is the
\* hint moves to the front
PrioritizedStores(hint) ==
    Let(_allstores, LAMBDA stores :
    Let({i \in 1..Len(stores) : urldistro(stores[i]) = hint}, LAMBDA hits :
    Let(stores[CHOOSE i \in hits : \A j \in hits : j <= i], LAMBDA found :
        IF Truthy(hint) /\ hits # {}
        THEN <<found>> \o SeqRemove(stores, found)
        ELSE stores)))

(***************************************************************************)
(* is_valid of each class                                                  *)
(***************************************************************************)
\* GenericTreeinfoDistro.is_valid
GenericTreeinfoDistro_is_valid(w) ==
    Let(treeinfo(w), LAMBDA t :
        IF t.exc # NoExc THEN t ELSE Return(~IsNone(t.ret), t.w))

\* the regex loop of SuseDistro.is_valid
suse_regex_loop(cls, w) ==
    Let(w.cache.suse_content, LAMBDA sc :
        IF sc.tag = "-1" THEN Return(FALSE, w)
        ELSE IF _suse_regex(cls) = <<>> THEN Return(FALSE, w)
        ELSE IF IsNone(sc.product_name) THEN Raise("TypeError", w)
        ELSE Return(\E i \in 1..Len(_suse_regex(cls)) :
                        re_match(_suse_regex(cls)[i], Val(sc.product_name)),
                    w))

\* SuseDistro.is_valid
SuseDistro_is_valid(cls, w) ==
    IF w.cache.suse_content.tag = "None"
    THEN Let([w EXCEPT !.cache.suse_content = [tag |-> "-1"]], LAMBDA w1 :
         Let(acquire_file_content(w1, "content"), LAMBDA a :
         Let(_SUSEContent(Val(a.ret)), LAMBDA sc :
             IF a.exc # NoExc THEN a
             ELSE IF IsNone(a.ret) THEN Return(FALSE, a.w)
             ELSE IF sc.exc # NoExc THEN Return(FALSE, a.w)
             ELSE suse_regex_loop(cls,
                    [a.w EXCEPT !.cache.suse_content = sc.ret]))))
    ELSE suse_regex_loop(cls, w)

ubuntu_regex == [prefix |-> FALSE, alts |-> {"Ubuntu", "ubuntu"}]
debian_regex == [prefix |-> FALSE, alts |-> {"Debian", "debian"}]

\* check_manifest of DebianDistro.is_valid
check_manifest(cls, w, mfile) ==
    Let(_debname(cls) = "ubuntu", LAMBDA is_ubuntu :
    Let(content_regex(w, mfile, ubuntu_regex), LAMBDA u :
        IF u.exc # NoExc THEN u
        ELSE IF u.ret THEN Return(is_ubuntu, u.w)
        ELSE content_regex(u.w, mfile, debian_regex)))

\* "cache.debian_media_type = media_type; return bool(media_type)"
found(media_type, w) ==
    Return(TRUE, [w EXCEPT !.cache.debian_media_type = Some(media_type)])

\* DebianDistro.is_valid
DebianDistro_is_valid(cls, w) ==
    Let(check_manifest(cls, w, "current/images/MANIFEST"), LAMBDA cur :
    Let(check_manifest(cls, cur.w, "daily/MANIFEST"), LAMBDA daily :
    Let(content_regex(daily.w, ".disk/info",
            [prefix |-> TRUE, alts |-> {capitalize(_debname(cls))}]), LAMBDA disk :
        IF cur.exc # NoExc THEN cur
        ELSE IF cur.ret THEN found("url", cur.w)
        ELSE IF daily.exc # NoExc THEN daily
        ELSE IF daily.ret THEN found("daily", daily.w)
        ELSE IF disk.exc # NoExc THEN disk
        ELSE IF disk.ret THEN found("disk", disk.w)
        ELSE Return(FALSE, disk.w))))

\* ALTLinuxDistro.is_valid
ALTLinuxDistro_is_valid(w) ==
    content_regex(w, ".disk/info", [prefix |-> FALSE, alts |-> {"ALT "}])

\* MandrivaDistro.is_valid
MandrivaDistro_is_valid(w) ==
    content_regex(w, "VERSION",
                  [prefix |-> FALSE, alts |-> {"Mandriva", "Mageia"}])

\* sclass.is_valid(cache)
is_valid(cls, w) ==
    CASE cls = "GenericTreeinfoDistro" -> GenericTreeinfoDistro_is_valid(w)
      [] cls \in TreeinfoClasses \ {"GenericTreeinfoDistro"} ->
            treeinfo_family_regex(w, famregex(cls))
      [] cls \in SuseClasses -> SuseDistro_is_valid(cls, w)
      [] cls \in DebianClasses -> DebianDistro_is_valid(cls, w)
      [] cls = "ALTLinuxDistro" -> ALTLinuxDistro_is_valid(w)
      [] cls = "MandrivaDistro" -> MandrivaDistro_is_valid(w)

(***************************************************************************)
(* The OS catalog (OSDB): an ordered list of entries                       *)
(* [name, label, codename], consulted and never changed                    *)
(***************************************************************************)
\* OSDB.list_os()
list_os(osdb) == osdb

\* OSDB.lookup_os(name) is not None
lookup_os(osdb, name) == \E i \in 1..Len(osdb) : osdb[i].name = name

\* the N of every catalog entry named fedoraN
FedoraNumbers(osdb) ==
    {DigitsValue(Slice(osdb[i].name, 7, Len(osdb[i].name))) :
        i \in {j \in 1..Len(osdb) :
                /\ startswith(osdb[j].name, "fedora")
                /\ isdigit(Slice(osdb[j].name, 7, Len(osdb[j].name)))}}

\* OSDB.latest_fedora_version(): "fedoraN" for the greatest known N
latest_fedora_version(osdb) ==
    "fedora" \o str(CHOOSE n \in FedoraNumbers(osdb) :
                        \A m \in FedoraNumbers(osdb) : m <= n)

(***************************************************************************)
(* Version inference of the tree-descriptor classes                        *)
(***************************************************************************)
\* _parse_fedora_version without the comparison with the latest known number
_parse_fedora_version_unclamped(osdb, treeinfo_version) ==
    Let(latest_fedora_version(osdb), LAMBDA latest_variant :
    Let(int(Slice(latest_variant, 7, Len(latest_variant))).ret, LAMBDA latest_verint :
    Let(IF Truthy(treeinfo_version) THEN Val(treeinfo_version)
        ELSE "rawhide", LAMBDA verstr :
    Let(IF isdigit(verstr) THEN int(verstr).ret ELSE latest_verint, LAMBDA verint :
        IF verstr \in {"development", "rawhide", "Rawhide"}
        THEN <<latest_verint, latest_variant>>
        ELSE <<verint, "fedora" \o str(verint)>>))))

\* FedoraDistro._parse_fedora_version: <<verint, os_variant>>
_parse_fedora_version(osdb, treeinfo_version) ==
    Let(latest_fedora_version(osdb), LAMBDA latest_variant :
    Let(int(Slice(latest_variant, 7, Len(latest_variant))).ret, LAMBDA latest_verint :
    Let(IF Truthy(treeinfo_version) THEN Val(treeinfo_version)
        ELSE "rawhide", LAMBDA verstr :
    Let(IF isdigit(verstr) THEN int(verstr).ret ELSE latest_verint, LAMBDA verint :
        IF verstr \in {"development", "rawhide", "Rawhide"}
        THEN <<latest_verint, latest_variant>>
        ELSE IF verint > latest_verint THEN <<verint, latest_variant>>
        ELSE <<verint, "fedora" \o str(verint)>>))))

\* _safeint of RHELDistro._split_rhel_version
_safeint(c) == IF int(c).exc = NoExc THEN int(c).ret ELSE 0

\* _split_rhel_version that drops the update of "M.U"
_split_rhel_version_major(verstr) ==
    IF count(verstr, ".") = 1
    THEN <<_safeint(split(verstr, ".")[1]), 0>>
    ELSE <<_safeint(verstr), 0>>

\* RHELDistro._split_rhel_version: <<version, update>>
_split_rhel_version(verstr) ==
    IF count(verstr, ".") = 1
    THEN <<_safeint(split(verstr, ".")[1]), _safeint(split(verstr, ".")[2])>>
    ELSE <<_safeint(verstr), 0>>

\* "tryvar = base + '.%s' % update"
tryvar(base, update) == base \o "." \o str(update)

\* Distro._check_osvariant_valid
_check_osvariant_valid(osdb, os_variant) == lookup_os(osdb, os_variant)

\* the backward search of RHELDistro._detect_version
RECURSIVE rhel_walk_back(_, _, _)
rhel_walk_back(osdb, base, update) ==
    IF update < 0 THEN None
    ELSE IF _check_osvariant_valid(osdb, tryvar(base, update))
    THEN Some(tryvar(base, update))
    ELSE rhel_walk_back(osdb, base, update - 1)

\* RHELDistro._detect_version: [_version_number, os_variant]
RHELDistro_detect_version(cls, osdb, treeinfo_version) ==
    IF ~Truthy(treeinfo_version)
    THEN [_version_number |-> None, os_variant |-> None]
    ELSE Let(_split_rhel_version(Val(treeinfo_version)), LAMBDA vu :
             [_version_number |-> Some(vu[1]),
              os_variant |->
                rhel_walk_back(osdb, _variant_prefix(cls) \o str(vu[1]),
                               vu[2])])

\* cls._detect_version of the tree-descriptor classes
_detect_version(cls, osdb, treeinfo_version) ==
    CASE cls = "FedoraDistro" ->
            Let(_parse_fedora_version(osdb, treeinfo_version), LAMBDA p :
                [_version_number |-> Some(p[1]), os_variant |-> Some(p[2])])
      [] cls \in {"RHELDistro", "CentOSDistro"} ->
            RHELDistro_detect_version(cls, osdb, treeinfo_version)
      [] OTHER -> [_version_number |-> None, os_variant |-> None]

(***************************************************************************)
(* Constructors: sclass(fetcher, arch, _type, cache)                       *)
(***************************************************************************)
StrPath(s) == [kind |-> "str", v |-> s]
TuplePath(a, b) == [kind |-> "tuple", v |-> <<a, b>>]

\* Distro.__init__ with the class attributes as defaults
Distro_init(cls, arch, vmtype, uri) ==
    [cls |-> cls,
     arch |-> Some(arch),
     type |-> vmtype,
     uri |-> uri,
     os_variant |-> None,
     _version_number |-> None,
     _boot_iso_paths |->
        CASE cls = "ALTLinuxDistro" ->
                Some(<<TuplePath("altinst", "live")>>)
          [] cls = "MandrivaDistro" ->
                Some(<<StrPath("install/images/boot.iso")>>)
          [] OTHER -> None,
     _kernel_paths |->
        CASE cls = "ALTLinuxDistro" ->
                Some(<<<<"syslinux/alt0/vmlinuz", "syslinux/alt0/full.cz">>>>)
          [] OTHER -> None]

\* GenericTreeinfoDistro._getTreeinfoMedia
_getTreeinfoMedia(cfg, vmtype, mediaName) ==
    Let(get(cfg, "general", "arch"), LAMBDA a :
    Let(IF vmtype = "xen" THEN "xen" ELSE a.ret, LAMBDA image_type :
        IF a.exc # NoExc THEN a
        ELSE get(cfg, "images-" \o image_type, mediaName)))

\* GenericTreeinfoDistro.__init__
GenericTreeinfoDistro_init(cls, w, osdb, arch, vmtype, uri) ==
    Let(Distro_init(cls, arch, vmtype, uri), LAMBDA self0 :
    Let(_detect_version(cls, osdb, w.cache.treeinfo_version), LAMBDA ver :
    Let([self0 EXCEPT !._version_number = ver._version_number,
                      !.os_variant = ver.os_variant], LAMBDA self1 :
    Let(treeinfo(w), LAMBDA t :
    Let(Val(t.ret), LAMBDA cfg :
    Let(_getTreeinfoMedia(cfg, vmtype, "kernel"), LAMBDA kernel :
    Let(_getTreeinfoMedia(cfg, vmtype, "initrd"), LAMBDA initrd :
    Let(_getTreeinfoMedia(cfg, vmtype, "boot.iso"), LAMBDA bootiso :
        IF t.exc # NoExc THEN t
        ELSE IF IsNone(t.ret) THEN Return(self1, t.w)
        ELSE Return(
                [self1 EXCEPT
                    !._kernel_paths =
                        IF kernel.exc = NoExc /\ initrd.exc = NoExc
                        THEN Some(<<<<kernel.ret, initrd.ret>>>>)
                        ELSE Some(<<>>),
                    !._boot_iso_paths =
                        IF bootiso.exc = NoExc
                        THEN Some(<<StrPath(bootiso.ret)>>)
                        ELSE Some(<<>>)],
                t.w)))))))))

\* a derivation that never appends the service pack
_variantFromVersion_nosp(cls, product_version) ==
    IF ~Truthy(product_version) THEN [exc |-> NoExc, ret |-> None]
    ELSE
    Let(Val(product_version), LAMBDA distro_version :
    Let(strip(split1(distro_version, ".")[1]), LAMBDA version :
    Let(Val(urldistro(cls)), LAMBDA base :
        IF int(version).exc # NoExc
        THEN [exc |-> int(version).exc, ret |-> None]
        ELSE IF int(version).ret >= 10
        THEN IF startswith(base, "sles") \/ startswith(base, "sled")
             THEN [exc |-> NoExc, ret |-> Some(base \o version)]
             ELSE IF Len(version) = 8
             THEN [exc |-> NoExc, ret |-> Some(base \o "tumbleweed")]
             ELSE [exc |-> NoExc, ret |-> Some(base \o distro_version)]
        ELSE [exc |-> NoExc, ret |-> Some(base \o "9")])))

\* SuseDistro._variantFromVersion: the os_variant it leaves, or ValueError
_variantFromVersion(cls, product_version) ==
    IF ~Truthy(product_version) THEN [exc |-> NoExc, ret |-> None]
    ELSE
    Let(Val(product_version), LAMBDA distro_version :
    Let(split1(distro_version, "."), LAMBDA parts :
    Let(strip(parts[1]), LAMBDA version :
    Let(Val(urldistro(cls)), LAMBDA base :
    Let(IF Len(parts) = 2 THEN "sp" \o strip(parts[2])
        ELSE "", LAMBDA sp_version :
        IF int(version).exc # NoExc
        THEN [exc |-> int(version).exc, ret |-> None]
        ELSE IF int(version).ret >= 10
        THEN IF startswith(base, "sles") \/ startswith(base, "sled")
             THEN [exc |-> NoExc, ret |-> Some(base \o version \o sp_version)]
             ELSE IF Len(version) = 8
             THEN [exc |-> NoExc, ret |-> Some(base \o "tumbleweed")]
             ELSE [exc |-> NoExc, ret |-> Some(base \o distro_version)]
        ELSE [exc |-> NoExc, ret |-> Some(base \o "9")])))))

\* re.search(pattern, s) for a pattern of literal characters and "."
re_search(pattern, s) ==
    \E i \in 1..(Len(s) - Len(pattern) + 1) :
        \A k \in 1..Len(pattern) :
            \/ At(pattern, k) = "." /\ At(s, i + k - 1) # "\n"
            \/ At(pattern, k) = At(s, i + k - 1)

\* SuseDistro._detect_osdict_from_url
RECURSIVE suse_osdict_from_url(_, _, _)
suse_osdict_from_url(oses, uri, os_variant) ==
    IF oses = <<>> THEN os_variant
    ELSE Let(Head(oses).name, LAMBDA name :
         Let(Slice(name, Len("opensuse") + 1, Len(name)), LAMBDA codename :
             IF re_search("/" \o codename \o "/", uri)
             THEN Some(name)
             ELSE suse_osdict_from_url(Tail(oses), uri, os_variant)))

IsOpensuseEntry(e) == startswith(e.name, "opensuse")

SuseDistro_detect_osdict_from_url(osdb, uri, os_variant) ==
    suse_osdict_from_url(SelectSeq(list_os(osdb), IsOpensuseEntry), uri,
                         os_variant)

\* the kernel path list SuseDistro.__init__ builds
suse_kernel_paths(arch, vmtype, os_variant) ==
    Let(IF arch = "x86_64" THEN "64" ELSE "", LAMBDA old64 :
    Let("boot/" \o arch, LAMBDA boot :
        (IF vmtype = "xen"
         THEN <<<<boot \o "/vmlinuz-xen", boot \o "/initrd-xen">>>>
         ELSE <<>>)
        \o (IF arch = "s390x" /\ os_variant \in {Some("sles11"), Some("sled11")}
            THEN <<<<"boot/s390x/vmrdr.ikr", "boot/s390x/initrd">>>>
            ELSE <<>>)
        \o <<<<boot \o "/linux", boot \o "/initrd">>,
             <<"boot/loader/linux" \o old64, "boot/loader/initrd" \o old64>>,
             <<boot \o "/loader/linux", boot \o "/loader/initrd">>>>))

\* SuseDistro.__init__
SuseDistro_init(cls, w, osdb, arch, vmtype, uri) ==
    Let(Distro_init(cls, arch, vmtype, uri), LAMBDA self0 :
    Let(w.cache.suse_content.tree_arch, LAMBDA tree_arch :
    Let(IF re_match_ix86(Val(tree_arch)) THEN "i386"
        ELSE Val(tree_arch), LAMBDA arch1 :
    Let(_variantFromVersion(cls, w.cache.suse_content.product_version), LAMBDA vv :
    Let(SuseDistro_detect_osdict_from_url(osdb, uri, vv.ret), LAMBDA os_variant :
        IF IsNone(tree_arch) THEN Raise("TypeError", w)
        ELSE IF vv.exc # NoExc THEN Raise(vv.exc, w)
        ELSE Return(
                [self0 EXCEPT
                    !.arch = Some(arch1),
                    !.os_variant = os_variant,
                    !._boot_iso_paths = Some(<<StrPath("boot/boot.iso")>>),
                    !._kernel_paths =
                        Some(suse_kernel_paths(arch1, vmtype, os_variant))],
                w))))))

\* re.findall("^.*" + marker + "(\w+)/?$", uri): the group, or None
find_tail_word(uri, marker) ==
    Let(rfind(uri, marker), LAMBDA i :
    Let(Slice(uri, i + Len(marker), Len(uri)), LAMBDA rest :
    Let(IF Len(rest) > 0 /\ At(rest, Len(rest)) = "/"
        THEN Slice(rest, 1, Len(rest) - 1) ELSE rest, LAMBDA word :
        IF i # 0 /\ Len(word) > 0 /\ \A k \in 1..Len(word) : At(word, k) \in WordChars
        THEN Some(word) ELSE None)))

\* DebianDistro._find_treearch
_find_treearch(uri) ==
    IF ~IsNone(find_tail_word(uri, "/installer-"))
    THEN Val(find_tail_word(uri, "/installer-"))
    ELSE IF ~IsNone(find_tail_word(uri, "/daily-images/"))
    THEN Val(find_tail_word(uri, "/daily-images/"))
    ELSE IF contains(uri, "i386") THEN "i386"
    ELSE IF contains(uri, "amd64") THEN "amd64"
    ELSE IF contains(uri, "x86_64") THEN "amd64"
    ELSE IF contains(uri, "arm64") THEN "arm64"
    ELSE "i386"

\* DebianDistro._set_url_paths: [_boot_iso_paths, _kernel_paths]
_set_url_paths(cls, url_prefix, vmtype, uri) ==
    Let(_find_treearch(uri), LAMBDA tree_arch :
    Let(tree_arch = "s390x", LAMBDA s390x :
    Let(IF s390x THEN url_prefix \o "/generic/"
        ELSE url_prefix \o "/netboot/" \o _debname(cls)
                 \o "-installer/" \o tree_arch \o "/", LAMBDA hvmroot :
    Let(IF s390x THEN "kernel." \o _debname(cls)
        ELSE IF tree_arch = "ppc64el" THEN "vmlinux"
        ELSE "linux", LAMBDA kernel_basename :
    Let(IF s390x THEN "initrd." \o _debname(cls)
        ELSE "initrd.gz", LAMBDA initrd_basename :
    Let(url_prefix \o "/netboot/xen/", LAMBDA xenroot :
        [_boot_iso_paths |-> <<StrPath(url_prefix \o "/netboot/mini.iso")>>,
         _kernel_paths |->
            (IF vmtype = "xen"
             THEN <<<<xenroot \o "vmlinuz", xenroot \o "initrd.gz">>>>
             ELSE <<>>)
            \o <<<<hvmroot \o kernel_basename, hvmroot \o initrd_basename>>>>]))))))

\* DebianDistro._set_installcd_paths: the kernel pair
_set_installcd_paths(cls, arch) ==
    IF _debname(cls) = "ubuntu"
    THEN IF arch # "s390x"
         THEN <<"install/vmlinuz", "install/initrd.gz">>
         ELSE <<"boot/kernel.ubuntu", "boot/initrd.ubuntu">>
    ELSE CASE arch = "x86_64" -> <<"install.amd/vmlinuz", "install.amd/initrd.gz">>
           [] arch = "i686" -> <<"install.386/vmlinuz", "install.386/initrd.gz">>
           [] arch = "aarch64" -> <<"install.a64/vmlinuz", "install.a64/initrd.gz">>
           [] arch = "ppc64le" -> <<"install/vmlinux", "install/initrd.gz">>
           [] arch = "s390x" -> <<"boot/linux_vm", "boot/root.bin">>
           [] OTHER -> <<"install/vmlinuz", "install/initrd.gz">>

\* the codename loop of DebianDistro._detect_debian_osdict_from_url
RECURSIVE debian_codename_loop(_, _)
debian_codename_loop(oses, uri) ==
    IF oses = <<>> THEN None
    ELSE
    Let(Head(oses), LAMBDA osobj :
    Let(~Truthy(osobj.codename) /\ ~contains(osobj.label, " "), LAMBDA skip :
    Let(IF Truthy(osobj.codename)
        THEN lowerstr(split_ws(Val(osobj.codename))[1])
        ELSE lowerstr(split_ws(osobj.label)[2]), LAMBDA codename :
        IF ~skip /\ contains(uri, "/" \o codename \o "/")
        THEN Some(osobj.name)
        ELSE debian_codename_loop(Tail(oses), uri))))

\* a resolution that searches the URL for a codename for every media type
_detect_debian_osdict_from_url_codename(cls, osdb, url_prefix, uri) ==
    Let(SelectSeq(list_os(osdb),
                  LAMBDA e : startswith(e.name, _debname(cls))), LAMBDA oses :
        [exc |-> NoExc, ret |-> debian_codename_loop(oses, uri)])

\* DebianDistro._detect_debian_osdict_from_url
_detect_debian_osdict_from_url(cls, osdb, url_prefix, uri) ==
    Let(SelectSeq(list_os(osdb),
                  LAMBDA e : startswith(e.name, _debname(cls))), LAMBDA oses :
        IF url_prefix = "daily"
        THEN IF oses = <<>> THEN [exc |-> "IndexError", ret |-> None]
             ELSE [exc |-> NoExc, ret |-> Some(oses[1].name)]
        ELSE [exc |-> NoExc, ret |-> debian_codename_loop(oses, uri)])

\* DebianDistro.__init__
DebianDistro_init(cls, w, osdb, arch, vmtype, uri) ==
    Let([Distro_init(cls, arch, vmtype, uri)
           EXCEPT !._kernel_paths = Some(<<>>)], LAMBDA self0 :
    Let(w.cache.debian_media_type, LAMBDA media_type :
    Let(IF media_type = Some("daily") THEN "daily"
        ELSE "current/images", LAMBDA url_prefix :
    Let(_set_url_paths(cls, url_prefix, vmtype, uri), LAMBDA paths :
    Let(_detect_debian_osdict_from_url(cls, osdb, url_prefix, uri), LAMBDA osv :
        IF media_type \in {Some("url"), Some("daily")}
        THEN IF osv.exc # NoExc THEN Raise(osv.exc, w)
             ELSE Return([self0 EXCEPT
                            !._boot_iso_paths = Some(paths._boot_iso_paths),
                            !._kernel_paths = Some(paths._kernel_paths),
                            !.os_variant = osv.ret], w)
        ELSE IF media_type = Some("disk")
        THEN Return([self0 EXCEPT !._kernel_paths =
                        Some(<<_set_installcd_paths(cls, arch)>>)], w)
        ELSE Return(self0, w))))))

\* MandrivaDistro.__init__
MandrivaDistro_init(cls, w, arch, vmtype, uri) ==
    Return([Distro_init(cls, arch, vmtype, uri) EXCEPT !._kernel_paths =
                Some(<<<<"isolinux/" \o arch \o "/vmlinuz",
                         "isolinux/" \o arch \o "/all.rdz">>,
                       <<"isolinux/alt0/vmlinuz", "isolinux/alt0/all.rdz">>>>)],
           w)

\* sclass(fetcher, arch, _type, cache)
construct(cls, w, osdb, arch, vmtype, uri) ==
    CASE cls \in TreeinfoClasses ->
            GenericTreeinfoDistro_init(cls, w, osdb, arch, vmtype, uri)
      [] cls \in SuseClasses -> SuseDistro_init(cls, w, osdb, arch, vmtype, uri)
      [] cls \in DebianClasses ->
            DebianDistro_init(cls, w, osdb, arch, vmtype, uri)
      [] cls = "MandrivaDistro" -> MandrivaDistro_init(cls, w, arch, vmtype, uri)
      [] OTHER -> Return(Distro_init(cls, arch, vmtype, uri), w)

\* a test that takes every version below the thresholds for an old one
_is_old_rhdistro_zero(self) ==
    IF IsNone(self._version_number) THEN FALSE
    ELSE IF urldistro(self.cls) = Some("fedora")
            /\ Val(self._version_number) < 19
    THEN TRUE
    ELSE IF Val(self._version_number) < 7 THEN TRUE
    ELSE FALSE

\* _is_old_rhdistro of GenericTreeinfoDistro._get_kernel_url_arg
_is_old_rhdistro(self) ==
    IF IsNone(self._version_number) \/ Val(self._version_number) = 0
    THEN FALSE
    ELSE IF urldistro(self.cls) = Some("fedora")
            /\ Val(self._version_number) < 19
    THEN TRUE
    ELSE IF Val(self._version_number) < 7 THEN TRUE
    ELSE FALSE

\* self._get_kernel_url_arg() of each class: the argument name, or None
_get_kernel_url_arg(self) ==
    CASE self.cls \in TreeinfoClasses ->
            IF _is_old_rhdistro(self) THEN Some("method")
            ELSE Some("inst.repo")
      [] self.cls \in SuseClasses -> Some("install")
      [] OTHER -> None

\* sample file contents and tree locations
Sample ==
    [ ti_fedora |->
           "[general]\n"
        \o "family = Fedora\n"
        \o "version = 21\n"
        \o "arch = x86_64\n"
        \o "[images-x86_64]\n"
        \o "kernel = images/pxeboot/vmlinuz\n"
        \o "initrd = images/pxeboot/initrd.img\n"
        \o "boot.iso = images/boot.iso\n",
      ti_rhel |->
           "[general]\n"
        \o "family = Red Hat Enterprise Linux\n"
        \o "version = 7.6\n"
        \o "arch = x86_64\n"
        \o "[images-x86_64]\n"
        \o "kernel = images/pxeboot/vmlinuz\n"
        \o "initrd = images/pxeboot/initrd.img\n",
      ti_centos |->
           "[general]\n"
        \o "family = CentOS\n"
        \o "version = 7\n",
      ti_generic |->
           "[general]\n"
        \o "family = Other\n"
        \o "arch = x86_64\n"
        \o "[images-x86_64]\n"
        \o "boot.iso = images/boot.iso\n",
      ti_nofamily |->
           "[general]\n"
        \o "version = 21\n",
      sc_sles |->
           "LABEL SUSE Linux Enterprise Server 11 SP4\n"
        \o "VERSION 11.4-1.109\n"
        \o "DEFAULTBASE x86_64\n",
      sc_sled |->
           "DISTRO cpe:/o:suse:sled:12:sp3,SUSE Linux Enterprise Desktop 12 SP3\n"
        \o "REPOID obsproduct://build.suse.de/SLED/12.3/DVD/x86_64\n",
      sc_opensuse |->
           "DISTRO cpe:/o:opensuse:opensuse:13.2,openSUSE\n"
        \o "REPOID obsproduct://build.opensuse.org/openSUSE/13.2/DVD/i586-x86_64\n",
      sc_noname |->
           "VERSION 12.3\n"
        \o "BASEARCHS i586 x86_64\n",
      sc_noarch |->
           "LABEL openSUSE 11.4\n"
        \o "VERSION 11.4\n",
      sc_badver |->
           "LABEL openSUSE Factory\n"
        \o "VERSION Factory\n"
        \o "BASEARCHS x86_64\n",
      mf_debian |->
           "netboot/debian-installer/amd64/linux\n",
      mf_ubuntu |->
           "netboot/ubuntu-installer/amd64/linux\n",
      mf_other |->
           "netboot/mini.iso\n",
      di_debian |->
           "Debian GNU/Linux 9.4.0\n",
      di_ubuntu |->
           "Ubuntu-Server 18.04 LTS\n",
      di_alt |->
           "ALT Linux 7.0.5\n",
      di_other |->
           "Linux Mint 19\n",
      v_mageia |->
           "Mageia release 5\n",
      v_other |->
           "1.0\n",
      uri_debian |->
           "http://ftp.debian.org/debian/dists/jessie/main/installer-amd64/",
      uri_opensuse |->
           "http://download.opensuse.org/distribution/13.2/repo/oss/" ]

(***************************************************************************)
(* Inputs: what the transport may answer for each metadata path, the tree  *)
(* locations, the guest's architecture and type, the distro hint and the   *)
(* OS catalog                                                              *)
(***************************************************************************)
SampleTexts(path) ==
    CASE path = ".treeinfo" ->
            {Sample.ti_fedora, Sample.ti_rhel, Sample.ti_centos,
             Sample.ti_generic, Sample.ti_nofamily, ""}
      [] path = "content" ->
            {Sample.sc_sles, Sample.sc_sled, Sample.sc_opensuse,
             Sample.sc_noname, Sample.sc_noarch, Sample.sc_badver}
      [] path \in {"current/images/MANIFEST", "daily/MANIFEST"} ->
            {Sample.mf_debian, Sample.mf_ubuntu, Sample.mf_other}
      [] path = ".disk/info" ->
            {Sample.di_debian, Sample.di_ubuntu, Sample.di_alt, Sample.di_other}
      [] path = "VERSION" -> {Sample.v_mageia, Sample.v_other}

\* a file that is there, the not-found error (ValueError), or another
\* error of the transport (OSError)
Responses(path) ==
    {[kind |-> "ok", text |-> t] : t \in SampleTexts(path)}
        \cup {[kind |-> "ValueError", text |-> ""],
              [kind |-> "OSError", text |-> ""]}

\* the guests and locations tried: <<arch, os_type, location>>
Guests ==
    {<<"x86_64", "hvm", Sample.uri_debian>>,
     <<"s390x", "xen", Sample.uri_opensuse>>}

\* OSDB.lookup_os(guest.os_variant).urldistro
Hints ==
    {None, Some("solaris")}
        \cup {urldistro(Classes[i]) : i \in 1..Len(Classes)}

Entry(name, label, codename) ==
    [name |-> name, label |-> label, codename |-> codename]

SampleCatalog ==
    <<Entry("fedora29", "Fedora", None),
      Entry("fedora28", "Fedora", None),
      Entry("rhel7.5", "Red Hat Enterprise Linux", None),
      Entry("rhel7.0", "Red Hat Enterprise Linux", None),
      Entry("centos7.0", "CentOS", None),
      Entry("opensuse13.2", "openSUSE", None),
      Entry("debian9", "Debian Stretch", None),
      Entry("debian8", "Debian Jessie", None),
      Entry("ubuntu18.04", "Ubuntu", Some("Bionic Beaver"))>>

(***************************************************************************)
(* The state machine: one getDistroStore call, then acquireBootISO or      *)
(* acquireKernel on the store it returned                                  *)
(***************************************************************************)
VARIABLES
    pc,         \* where the call is: "idle", "loop", "returned", "raised", "iso_done", ...
    hint,       \* urldistro of the guest's os_variant (optional)
    arch,       \* guest.os.arch
    vmtype,     \* guest.os.os_type
    uri,        \* fetcher.location
    osdb,       \* the OS catalog
    stores,     \* the evaluation order of getDistroStore
    idx,        \* position of the for loop in stores
    cache,      \* the _DistroCache of the call
    tree,       \* the transport's answer for each path asked so far
    nfetch,     \* fetcher.acquireFileContent calls per path
    evalLog,    \* the is_valid evaluations made, in order, with their outcome
    store,      \* the Distro object returned (optional)
    error,      \* the exception that ended the call (optional)
    iso,        \* the acquireBootISO call: hasFile probes and outcome (optional)
    kernel,     \* the acquireKernel call: probes, fetches and outcome (optional)
    dv          \* a _detect_version call run on its own, and the
                \* _get_kernel_url_arg call after it: the object and locals

vars ==
    <<pc, hint, arch, vmtype, uri, osdb, stores, idx, cache, tree, nfetch,
      evalLog, store, error, iso, kernel, dv>>

\* no _detect_version call on its own
NoDetect ==
    [pc |-> "none", cls |-> "", treeinfo_version |-> None,
     _version_number |-> None, os_variant |-> None, base |-> "", update |-> 0,
     tried |-> <<>>, kernel_url_arg |-> None]

NoFetches == [p \in MetaPaths |-> 0]

EmptyTree == [p \in {} |-> [kind |-> "ValueError", text |-> ""]]

Init ==
    /\ pc = "idle"
    /\ hint \in Hints
    /\ \E g \in Guests : arch = g[1] /\ vmtype = g[2] /\ uri = g[3]
    /\ osdb = SampleCatalog
    /\ stores = <<>>
    /\ idx = 0
    /\ cache = NewCache
    /\ tree = EmptyTree
    /\ nfetch = NoFetches
    /\ evalLog = <<>>
    /\ store = None
    /\ error = None
    /\ iso = None
    /\ kernel = None
    /\ dv = NoDetect

\* getDistroStore up to its for loop: the cache and the evaluation order
GetDistroStoreBegin ==
    /\ pc = "idle"
    /\ pc' = "loop"
    /\ stores' = PrioritizedStores(hint)
    /\ idx' = 1
    /\ cache' = NewCache
    /\ UNCHANGED <<hint, arch, vmtype, uri, osdb, tree, nfetch, evalLog,
                   store, error, iso, kernel, dv>>

\* the tree t with the answer r for path p
Answer(t, p, r) == [q \in (DOMAIN t) \cup {p} |-> IF q = p THEN r ELSE t[q]]

\* every tree that extends w.tree by answers for just the paths
\* sclass.is_valid asks the transport for
RECURSIVE TreeExtensions(_, _)
TreeExtensions(sclass, w) ==
    Let(is_valid(sclass, w), LAMBDA v :
        IF v.exc # Unanswered THEN {w.tree}
        ELSE UNION {TreeExtensions(sclass,
                        [w EXCEPT !.tree = Answer(@, v.ret, r)]) :
                    r \in Responses(v.ret)})

\* a for loop body that goes on to the next class whatever is_valid returned
loop_body_continue(v) == IF v.exc # NoExc THEN "raise" ELSE "continue"

\* the for loop body on is_valid's outcome v: "if not sclass.is_valid(cache):
\* continue", else construct and return
loop_body(v) ==
    IF v.exc # NoExc THEN "raise"
    ELSE IF ~v.ret THEN "continue"
    ELSE "return"

\* one iteration of the for loop: is_valid, and for a valid class the
\* constructor and the return
EvaluateStore ==
    /\ pc = "loop"
    /\ idx <= Len(stores)
    /\ \E t \in TreeExtensions(stores[idx],
                    [cache |-> cache, tree |-> tree, nfetch |-> nfetch]) :
        /\ LET sclass == stores[idx]
               w == [cache |-> cache, tree |-> t, nfetch |-> nfetch]
               v == is_valid(sclass, w)
               c == construct(sclass, v.w, osdb, arch, vmtype, uri)
               r == IF loop_body(v) = "return" THEN c ELSE v
               verdict == IF v.exc # NoExc THEN "raise"
                          ELSE IF v.ret THEN "true" ELSE "false"
           IN  /\ evalLog' = Append(evalLog,
                                [cls |-> sclass, verdict |-> verdict])
               /\ cache' = r.w.cache
               /\ nfetch' = r.w.nfetch
               /\ tree' = t
               /\ IF r.exc # NoExc
                  THEN /\ pc' = "raised"
                       /\ error' = Some([type |-> r.exc, msg |-> ""])
                       /\ UNCHANGED <<idx, store>>
                  ELSE IF loop_body(v) = "continue"
                  THEN /\ idx' = idx + 1
                       /\ UNCHANGED <<pc, error, store>>
                  ELSE /\ pc' = "returned"
                       /\ store' = Some(r.ret)
                       /\ UNCHANGED <<idx, error>>
    /\ UNCHANGED <<hint, arch, vmtype, uri, osdb, stores, iso, kernel, dv>>

\* the end of getDistroStore when no class was valid
NoDistroFound ==
    /\ pc = "loop"
    /\ idx > Len(stores)
    /\ \E can_access \in BOOLEAN :
        error' = Some([type |-> "ValueError",
                       msg |-> IF can_access
                               THEN "Could not find an installable distribution"
                               ELSE "Could not find an installable distribution: The URL could not be accessed, maybe you mistyped?"])
    /\ pc' = "raised"
    /\ UNCHANGED <<hint, arch, vmtype, uri, osdb, stores, idx, cache, tree,
                   nfetch, evalLog, store, iso, kernel, dv>>

\* what fetcher.acquireFile may do for a file: deliver a local copy, or
\* raise the not-found error or another error of the transport
AcquireFileAnswers == {"ok", "ValueError", "OSError"}

\* what fetcher.hasFile may answer for a candidate: a path that is no str
\* (the tuple ALTLinuxDistro lists) may also make the transport raise
HasFileAnswers(path) ==
    IF path.kind = "str" THEN {"yes", "no"} ELSE {"yes", "no", "TypeError"}

\* the for loop of Distro.acquireBootISO over paths[i..]; has[i] is the
\* transport's hasFile answer for paths[i], acq what fetcher.acquireFile
\* does for the candidate that is there: its error ends the call
RECURSIVE boot_iso_loop(_, _, _, _, _)
boot_iso_loop(self, has, acq, i, probes) ==
    Let(Val(self._boot_iso_paths), LAMBDA paths :
    Let(Append(probes, [path |-> i, answer |-> has[i]]), LAMBDA seen :
        IF i > Len(paths)
        THEN [exc |-> "RuntimeError", msg |-> "Could not find boot.iso",
              distro |-> PRETTY_NAME(self.cls), ret |-> 0, probes |-> probes]
        ELSE IF has[i] = "TypeError"
        THEN [exc |-> "TypeError", msg |-> "", distro |-> None, ret |-> 0,
              probes |-> seen]
        ELSE IF has[i] = "yes"
        THEN IF acq = "ok"
             THEN [exc |-> NoExc, msg |-> "", distro |-> None, ret |-> i,
                   probes |-> seen]
             ELSE [exc |-> acq, msg |-> "", distro |-> None, ret |-> 0,
                   probes |-> seen]
        ELSE boot_iso_loop(self, has, acq, i + 1, seen)))

\* Distro.acquireBootISO: ret is the index of the candidate that
\* fetcher.acquireFile delivered
acquireBootISO(self, has, acq) ==
    IF IsNone(self._boot_iso_paths)
    THEN [exc |-> "TypeError", msg |-> "", distro |-> None, ret |-> 0,
          probes |-> <<>>]
    ELSE boot_iso_loop(self, has, acq, 1, <<>>)

\* every way the transport may answer hasFile for the candidates
HasFileWorlds(self) ==
    IF IsNone(self._boot_iso_paths) THEN {<<>>}
    ELSE Let(Val(self._boot_iso_paths), LAMBDA paths :
             {h \in [1..Len(paths) -> {"yes", "no", "TypeError"}] :
                \A i \in 1..Len(paths) : h[i] \in HasFileAnswers(paths[i])})

\* store.acquireBootISO() on the store getDistroStore returned
AcquireBootISO ==
    /\ pc = "returned"
    /\ \E has \in HasFileWorlds(Val(store)) :
       \E acq \in AcquireFileAnswers :
        iso' = Some(acquireBootISO(Val(store), has, acq))
    /\ pc' = "iso_done"
    /\ UNCHANGED <<hint, arch, vmtype, uri, osdb, stores, idx, cache, tree,
                   nfetch, evalLog, store, error, kernel, dv>>

\* a test that takes a pair when either file is there
has_both_either(hk, hi) == hk \/ hi

\* "self.fetcher.hasFile(kpath) and self.fetcher.hasFile(ipath)" for the
\* transport's answers hk and hi
has_both(hk, hi) == hk /\ hi

\* the for loop of Distro.acquireKernel over paths[i..]; has[i] is what the
\* transport answers for the two files of paths[i]; ipath is asked for only
\* when kpath is there
RECURSIVE kernel_loop(_, _, _, _)
kernel_loop(paths, has, i, probes) ==
    IF i > Len(paths) THEN [pair |-> 0, probes |-> probes]
    ELSE
    Let(Append(probes,
               [pair |-> i,
                kernel |-> has[i][1],
                initrd |-> IF ~has[i][1] THEN "unasked"
                           ELSE IF has[i][2] THEN "yes" ELSE "no"]), LAMBDA seen :
        IF has_both(has[i][1], has[i][2])
        THEN [pair |-> i, probes |-> seen]
        ELSE kernel_loop(paths, has, i + 1, seen))

\* an except clause that re-raises without deleting anything
unlink_skipped(files, f) == files

\* "os.unlink(kernel)": the local files left
unlink(files, f) == files \ {f}

\* Distro.acquireKernel: acq are the outcomes of fetcher.acquireFile for
\* the kernel and the initrd.  fetched lists the acquireFile calls in call
\* order and answers what each did, files the local copies that exist when
\* the call ends.
acquireKernel(self, has, acq) ==
    IF IsNone(self._kernel_paths)
    THEN [exc |-> "TypeError", msg |-> "", distro |-> None, pair |-> 0,
          ret |-> None, probes |-> <<>>, fetched |-> <<>>, answers |-> <<>>,
          files |-> {}]
    ELSE
    Let(Val(self._kernel_paths), LAMBDA paths :
    Let(kernel_loop(paths, has, 1, <<>>), LAMBDA loop :
    Let(IF loop.pair = 0 THEN None
        ELSE Some(paths[loop.pair][1]), LAMBDA kernelpath :
    Let(IF loop.pair = 0 THEN None
        ELSE Some(paths[loop.pair][2]), LAMBDA initrdpath :
    Let(_get_kernel_url_arg(self), LAMBDA arg :
    Let(IF ~startswith(self.uri, "/") /\ Truthy(arg)
        THEN Val(arg) \o "=" \o self.uri ELSE "", LAMBDA args :
    Let([exc |-> NoExc, msg |-> "", distro |-> None, pair |-> loop.pair,
         ret |-> None, probes |-> loop.probes, fetched |-> <<>>,
         answers |-> <<>>, files |-> {}], LAMBDA r :
        IF ~Truthy(kernelpath) \/ ~Truthy(initrdpath)
        THEN [r EXCEPT !.exc = "RuntimeError",
                       !.msg = "Couldn't find kernel",
                       !.distro = PRETTY_NAME(self.cls)]
        ELSE IF acq[1] # "ok"
        THEN [r EXCEPT !.exc = acq[1],
                       !.fetched = <<Val(kernelpath)>>,
                       !.answers = <<acq[1]>>]
        ELSE IF acq[2] # "ok"
        THEN [r EXCEPT !.exc = acq[2],
                       !.fetched = <<Val(kernelpath), Val(initrdpath)>>,
                       !.answers = <<acq[1], acq[2]>>,
                       !.files = unlink({Val(kernelpath)}, Val(kernelpath))]
        ELSE [r EXCEPT !.ret = Some(<<Val(kernelpath), Val(initrdpath), args>>),
                       !.fetched = <<Val(kernelpath), Val(initrdpath)>>,
                       !.answers = <<acq[1], acq[2]>>,
                       !.files = {Val(kernelpath), Val(initrdpath)}])))))))

\* every way the transport may answer hasFile for the candidate pairs
KernelWorlds(self) ==
    IF IsNone(self._kernel_paths) THEN {<<>>}
    ELSE [1..Len(Val(self._kernel_paths)) -> BOOLEAN \X BOOLEAN]

\* store.acquireKernel() on the store getDistroStore returned
AcquireKernel ==
    /\ pc = "returned"
    /\ \E has \in KernelWorlds(Val(store)) :
        \E acq \in AcquireFileAnswers \X AcquireFileAnswers :
            kernel' = Some(acquireKernel(Val(store), has, acq))
    /\ pc' = "kernel_done"
    /\ UNCHANGED <<hint, arch, vmtype, uri, osdb, stores, idx, cache, tree,
                   nfetch, evalLog, store, error, iso, dv>>

Next ==
    \/ GetDistroStoreBegin
    \/ EvaluateStore
    \/ NoDistroFound
    \/ AcquireBootISO
    \/ AcquireKernel

Spec == Init /\ [][Next]_vars

(***************************************************************************)
(* The version inference on its own: _detect_version of a tree-descriptor  *)
(* class, run for a treeinfo version and a catalog drawn from bounded      *)
(* sets, and _get_kernel_url_arg on the outcome.  The while loop of        *)
(* RHELDistro._detect_version is taken one iteration at a time.            *)
(***************************************************************************)
\* the updates u of the identifiers <prefix>7.u a catalog may know: 0..MaxUpdate
MaxUpdate == 3

\* the Fedora numbers a catalog may know: MaxFedora - 2 .. MaxFedora
MaxFedora == 19

\* the major versions of the RHEL/CentOS trees tried
Majors == {6, 7, 8}

\* the sequence of the elements of a set of integers, ascending
RECURSIVE Ascending(_)
Ascending(S) ==
    IF S = {} THEN <<>>
    ELSE Let(CHOOSE n \in S : \A m \in S : n <= m, LAMBDA least :
             <<least>> \o Ascending(S \ {least}))

\* a catalog knowing <prefix><major>.u for the u of updates
RhelEntries(prefix, major, updates) ==
    [i \in 1..Cardinality(updates) |->
        Entry(prefix \o str(major) \o "." \o str(Ascending(updates)[i]),
              prefix, None)]

\* the catalogs tried for RHELDistro and CentOSDistro
RhelCatalogs ==
    {RhelEntries("rhel", 7, r) \o RhelEntries("centos", 7, c) :
        r \in SUBSET (0..MaxUpdate), c \in SUBSET {MaxUpdate}}

\* the treeinfo versions tried for RHELDistro and CentOSDistro
RhelVersions ==
    {Some(str(m) \o "." \o str(u)) : m \in Majors, u \in 0..(MaxUpdate + 1)}
        \cup {None, Some(""), Some("7"), Some("7.x"), Some("7.1.1"),
              Some("6Server"), Some("-1.2")}

\* the catalogs tried for FedoraDistro
FedoraCatalogs ==
    {[i \in 1..Cardinality(known) |->
        Entry("fedora" \o str(Ascending(known)[i]), "Fedora", None)] :
     known \in (SUBSET ((MaxFedora - 2)..MaxFedora)) \ {{}}}

\* the treeinfo versions tried for FedoraDistro
FedoraVersions ==
    {Some(str(n)) : n \in 0..(MaxFedora + 1)}
        \cup {None, Some(""), Some("rawhide"), Some("Rawhide"),
              Some("development"), Some("f11"), Some("011"), Some("11.1")}

InitVersion ==
    /\ pc = "idle"
    /\ hint = None
    /\ arch = "x86_64"
    /\ vmtype = "hvm"
    /\ uri = Sample.uri_debian
    /\ stores = <<>>
    /\ idx = 0
    /\ cache = NewCache
    /\ tree = EmptyTree
    /\ nfetch = NoFetches
    /\ evalLog = <<>>
    /\ store = None
    /\ error = None
    /\ iso = None
    /\ kernel = None
    /\ \E cls \in TreeinfoClasses :
        \E v \in IF cls = "FedoraDistro" THEN FedoraVersions
                 ELSE RhelVersions :
            /\ osdb \in IF cls = "FedoraDistro" THEN FedoraCatalogs
                        ELSE RhelCatalogs
            /\ dv = [NoDetect EXCEPT !.pc = "call", !.cls = cls,
                                     !.treeinfo_version = v]

\* FedoraDistro._detect_version
FedoraDetectVersion ==
    /\ dv.pc = "call"
    /\ dv.cls = "FedoraDistro"
    /\ dv' = [dv EXCEPT
                !.pc = "done",
                !._version_number =
                    Some(_parse_fedora_version(osdb, dv.treeinfo_version)[1]),
                !.os_variant =
                    Some(_parse_fedora_version(osdb, dv.treeinfo_version)[2])]
    /\ UNCHANGED <<pc, hint, arch, vmtype, uri, osdb, stores, idx, cache, tree,
                   nfetch, evalLog, store, error, iso, kernel>>

\* GenericTreeinfoDistro._detect_version: pass
GenericDetectVersion ==
    /\ dv.pc = "call"
    /\ dv.cls = "GenericTreeinfoDistro"
    /\ dv' = [dv EXCEPT !.pc = "done"]
    /\ UNCHANGED <<pc, hint, arch, vmtype, uri, osdb, stores, idx, cache, tree,
                   nfetch, evalLog, store, error, iso, kernel>>

\* RHELDistro._detect_version up to its while loop
RhelDetectVersion ==
    /\ dv.pc = "call"
    /\ dv.cls \in {"RHELDistro", "CentOSDistro"}
    /\ IF ~Truthy(dv.treeinfo_version)
       THEN dv' = [dv EXCEPT !.pc = "done"]
       ELSE dv' = [dv EXCEPT
                !.pc = "while",
                !._version_number =
                    Some(_split_rhel_version(Val(dv.treeinfo_version))[1]),
                !.base =
                    _variant_prefix(dv.cls)
                        \o str(_split_rhel_version(Val(dv.treeinfo_version))[1]),
                !.update = _split_rhel_version(Val(dv.treeinfo_version))[2]]
    /\ UNCHANGED <<pc, hint, arch, vmtype, uri, osdb, stores, idx, cache, tree,
                   nfetch, evalLog, store, error, iso, kernel>>

\* one test of "while update >= 0" and, when it holds, one run of the body
RhelWalkBack ==
    /\ dv.pc = "while"
    /\ IF dv.update < 0
       THEN dv' = [dv EXCEPT !.pc = "done"]
       ELSE IF _check_osvariant_valid(osdb, tryvar(dv.base, dv.update))
       THEN dv' = [dv EXCEPT
                !.pc = "done",
                !.os_variant = Some(tryvar(dv.base, dv.update)),
                !.tried = Append(@, tryvar(dv.base, dv.update))]
       ELSE dv' = [dv EXCEPT
                !.update = @ - 1,
                !.tried = Append(@, tryvar(dv.base, dv.update))]
    /\ UNCHANGED <<pc, hint, arch, vmtype, uri, osdb, stores, idx, cache, tree,
                   nfetch, evalLog, store, error, iso, kernel>>

\* self._get_kernel_url_arg() on the object _detect_version has filled in
GetKernelUrlArg ==
    /\ dv.pc = "done"
    /\ dv' = [dv EXCEPT
                !.pc = "arg",
                !.kernel_url_arg =
                    _get_kernel_url_arg(
                        [cls |-> dv.cls,
                         _version_number |-> dv._version_number])]
    /\ UNCHANGED <<pc, hint, arch, vmtype, uri, osdb, stores, idx, cache, tree,
                   nfetch, evalLog, store, error, iso, kernel>>

NextVersion ==
    \/ FedoraDetectVersion
    \/ GenericDetectVersion
    \/ RhelDetectVersion
    \/ RhelWalkBack
    \/ GetKernelUrlArg

SpecVersion == InitVersion /\ [][NextVersion]_vars

(***************************************************************************)
(* The SUSE version inference on its own: a content file of an enterprise  *)
(* product is parsed by _SUSEContent and _variantFromVersion derives the   *)
(* os_variant of an object of the product's class.                         *)
(***************************************************************************)
\* the major versions tried: 9..MaxSuseMajor
MaxSuseMajor == 12

\* the service packs tried: 1..MaxServicePack, and 0 for a name without a
\* service-pack token
MaxServicePack == 10

SuseMajors == 9..MaxSuseMajor

ServicePacks == 0..MaxServicePack

\* the product names of the enterprise classes, as in the examples of
\* _SUSEContent._get_product_name
SuseProductName(cls, major, sp) ==
    (IF cls = "SLESDistro" THEN "SUSE Linux Enterprise Server"
     ELSE "SUSE Linux Enterprise Desktop")
        \o " " \o str(major)
        \o (IF sp = 0 THEN "" ELSE " SP" \o str(sp))

\* a content file that carries the product name in its LABEL line or in
\* its DISTRO line
SuseContentText(form, cls, major, sp) ==
    IF form = "LABEL"
    THEN "LABEL " \o SuseProductName(cls, major, sp) \o "\n"
            \o "VERSION " \o str(major) \o "." \o str(sp) \o "-1.109\n"
            \o "DEFAULTBASE x86_64\n"
    ELSE "DISTRO cpe:/o:suse:" \o Val(urldistro(cls)) \o ":" \o str(major)
            \o "," \o SuseProductName(cls, major, sp) \o "\n"
            \o "REPOID obsproduct://build.suse.de/SLE/" \o str(major)
            \o "/DVD/x86_64\n"

InitSuse ==
    /\ pc = "suse_call"
    /\ hint = None
    /\ arch = "x86_64"
    /\ vmtype = "hvm"
    /\ uri = Sample.uri_debian
    /\ osdb = SampleCatalog
    /\ \E cls \in {"SLESDistro", "SLEDDistro"} :
        \E form \in {"LABEL", "DISTRO"}, major \in SuseMajors,
           sp \in ServicePacks :
            /\ stores = <<cls>>
            /\ tree = Answer(EmptyTree, "content",
                             [kind |-> "ok",
                              text |-> SuseContentText(form, cls, major, sp)])
    /\ idx = 1
    /\ cache = NewCache
    /\ nfetch = NoFetches
    /\ evalLog = <<>>
    /\ store = None
    /\ error = None
    /\ iso = None
    /\ kernel = None
    /\ dv = NoDetect

\* the start of SuseDistro.is_valid on a new cache, up to
\* "cache.suse_content = _SUSEContent(content_str)": the sentinel is set,
\* the content file is fetched through the cache, and the parsed object
\* takes the sentinel's place; without a content file, or when parsing
\* raises, the sentinel stays
SuseParseContent ==
    /\ pc = "suse_call"
    /\ cache.suse_content.tag = "None"
    /\ pc' = "suse_parsed"
    /\ LET w1 == [cache |-> [cache EXCEPT !.suse_content = [tag |-> "-1"]],
                  tree |-> tree, nfetch |-> nfetch]
           a == acquire_file_content(w1, "content")
           sc == _SUSEContent(Val(a.ret))
       IN  /\ a.exc # Unanswered
           /\ nfetch' = a.w.nfetch
           /\ IF a.exc # NoExc
              THEN /\ error' = Some([type |-> a.exc, msg |-> ""])
                   /\ cache' = a.w.cache
              ELSE /\ UNCHANGED error
                   /\ cache' = IF IsNone(a.ret) \/ sc.exc # NoExc
                                THEN a.w.cache
                                ELSE [a.w.cache EXCEPT !.suse_content = sc.ret]
    /\ UNCHANGED <<hint, arch, vmtype, uri, osdb, stores, idx, tree, evalLog,
                   store, iso, kernel, dv>>

\* self._variantFromVersion() on an object of the class stores[idx]
SuseVariantFromVersion ==
    /\ pc = "suse_parsed"
    /\ cache.suse_content.tag = "obj"
    /\ pc' = "suse_done"
    /\ LET vv == _variantFromVersion(stores[idx],
                                     cache.suse_content.product_version)
       IN  IF vv.exc # NoExc
           THEN /\ error' = Some([type |-> vv.exc, msg |-> ""])
                /\ UNCHANGED store
           ELSE /\ store' = Some([Distro_init(stores[idx], arch, vmtype, uri)
                                    EXCEPT !.os_variant = vv.ret])
                /\ UNCHANGED error
    /\ UNCHANGED <<hint, arch, vmtype, uri, osdb, stores, idx, cache, tree,
                   nfetch, evalLog, iso, kernel, dv>>

NextSuse ==
    \/ SuseParseContent
    \/ SuseVariantFromVersion

SpecSuse == InitSuse /\ [][NextSuse]_vars

(***************************************************************************)
(* Properties of getDistroStore and acquireBootISO (under Spec)            *)
(***************************************************************************)
\* the evaluations made so far follow the evaluation order
FollowsOrder ==
    /\ Len(evalLog) <= Len(stores)
    /\ \A k \in 1..Len(evalLog) : evalLog[k].cls = stores[k]

\* the error that ends getDistroStore when no class was valid
IsNoDistroError ==
    /\ pc = "raised"
    /\ Val(error).type = "ValueError"
    /\ startswith(Val(error).msg, "Could not find an installable distribution")

\* C1: within one getDistroStore call the transport's acquireFileContent is
\* called at most once for each path, whatever the hint and however many
\* validity tests and constructors ask the cache for the path, also when the
\* fetch failed with the not-found error: the absent result is stored.
C1_FetchedAtMostOnce ==
    /\ \A p \in MetaPaths : nfetch[p] <= 1
    /\ \A p \in DOMAIN cache._filecache :
        /\ nfetch[p] = 1
        /\ p \in DOMAIN tree
        /\ cache._filecache[p] =
            IF tree[p].kind = "ok" THEN Some(tree[p].text) ELSE None

\* .disk/info was not found, DebianDistro, UbuntuDistro and ALTLinuxDistro
\* have each asked the cache for it, and the transport was asked once
C1_Witness ==
    /\ Len(evalLog) >= 10
    /\ \E k \in 1..Len(evalLog) : evalLog[k].cls = "ALTLinuxDistro"
    /\ ".disk/info" \in DOMAIN cache._filecache
    /\ cache._filecache[".disk/info"] = None
    /\ nfetch[".disk/info"] = 1

\* C2: getDistroStore returns an instance of the first class, in evaluation
\* order, whose is_valid is true: nothing is evaluated after a test passed,
\* every class before the returned one was evaluated and found false, and
\* the "Could not find an installable distribution" error is raised only
\* after every class's test has returned false.
C2_FirstValidReturned ==
    /\ FollowsOrder
    /\ \A k \in 1..(Len(evalLog) - 1) : evalLog[k].verdict = "false"
    /\ pc \in {"returned", "iso_done"} =>
        /\ evalLog # <<>>
        /\ evalLog[Len(evalLog)].verdict = "true"
        /\ Val(store).cls = stores[Len(evalLog)]
    /\ IsNoDistroError =>
        /\ Len(evalLog) = Len(stores)
        /\ \A k \in 1..Len(evalLog) : evalLog[k].verdict = "false"

\* a store was returned after earlier classes were found invalid and before
\* the last classes of the order were reached
C2_Witness ==
    /\ pc = "returned"
    /\ Len(evalLog) > 1
    /\ Len(evalLog) < Len(stores)
    /\ Val(store).cls = stores[Len(evalLog)]

\* C3: when the hint is the urldistro of a registered class, that class is
\* evaluated first, the others keep their registered relative order and
\* GenericTreeinfoDistro is still last; when the hint is absent or matches
\* no class the evaluation order is the registered order, with
\* GenericTreeinfoDistro last.
C3_HintedStoreFirst ==
    pc # "idle" =>
        LET hits == {i \in 1..Len(_allstores) :
                        hint # None /\ urldistro(_allstores[i]) = hint}
        IN  /\ FollowsOrder
            /\ Len(stores) = Len(_allstores)
            /\ stores[Len(stores)] = "GenericTreeinfoDistro"
            /\ _allstores[Len(_allstores)] = "GenericTreeinfoDistro"
            /\ hits = {} => stores = _allstores
            /\ \A i \in hits :
                /\ stores[1] = _allstores[i]
                /\ \A j \in 2..Len(stores) :
                    stores[j] = _allstores[IF j - 1 < i THEN j - 1 ELSE j]

\* the hint is "debian", DebianDistro was evaluated first and FedoraDistro,
\* the first registered class, second
C3_Witness ==
    /\ hint = Some("debian")
    /\ Len(evalLog) >= 2
    /\ evalLog[1].cls = "DebianDistro"
    /\ evalLog[2].cls = "FedoraDistro"

\* the .treeinfo the transport delivered has no family in its general section
TreeinfoWithoutFamily ==
    /\ ".treeinfo" \in DOMAIN tree
    /\ tree[".treeinfo"].kind = "ok"
    /\ tree[".treeinfo"].text \in {Sample.ti_nofamily, ""}

\* C4: if .treeinfo was fetched during the call and has no family key in
\* its general section, the call ends with the parse error: no store is
\* returned, the class is not taken as merely invalid and no later class is
\* evaluated.
C4_MissingFamilyEndsCall ==
    TreeinfoWithoutFamily =>
        /\ pc = "raised"
        /\ store = None
        /\ Val(error).type \in {"NoSectionError", "NoOptionError"}
        /\ evalLog[Len(evalLog)].verdict = "raise"
        /\ evalLog[Len(evalLog)].cls \in TreeinfoClasses
        /\ \A k \in 1..(Len(evalLog) - 1) :
            evalLog[k].cls \notin TreeinfoClasses

\* with the hint "opensuse" OpensuseDistro was evaluated first, then
\* FedoraDistro fetched a .treeinfo without family and the call ended
C4_Witness ==
    /\ TreeinfoWithoutFamily
    /\ tree[".treeinfo"].text = Sample.ti_nofamily
    /\ pc = "raised"
    /\ Len(evalLog) = 2
    /\ evalLog[2] = [cls |-> "FedoraDistro", verdict |-> "raise"]

\* C5 as stated: whatever error the transport raises for a path, the cache
\* returns an absent value for it and raises nothing, so that no error of
\* the transport reaches a validity test or a constructor.
C5_NoTransportErrorLeaks ==
    \A p \in DOMAIN tree :
        tree[p].kind # "ok" =>
            /\ p \in DOMAIN cache._filecache
            /\ cache._filecache[p] = None
            /\ ~(pc = "raised" /\ Val(error).type = tree[p].kind
                    /\ evalLog[Len(evalLog)].verdict = "raise")

\* C5 amended: the not-found error (ValueError) becomes a stored absent
\* value and no validity test is ended by it; any other error of the
\* transport is not caught: it ends the validity test that asked and with it
\* the getDistroStore call, and nothing is stored for the path.
C5_OnlyNotFoundAbsorbed ==
    \A p \in DOMAIN tree :
        /\ tree[p].kind = "ValueError" =>
            /\ p \in DOMAIN cache._filecache
            /\ cache._filecache[p] = None
            /\ evalLog[Len(evalLog)].verdict = "raise" =>
                Val(error).type # "ValueError"
        /\ tree[p].kind = "OSError" =>
            /\ p \notin DOMAIN cache._filecache
            /\ pc = "raised"
            /\ Val(error).type = "OSError"
            /\ evalLog[Len(evalLog)].verdict = "raise"

\* .treeinfo was not found, which the cache absorbed, and a later path made
\* the transport raise OSError, which ended the call
C5_Witness ==
    /\ ".treeinfo" \in DOMAIN tree
    /\ tree[".treeinfo"].kind = "ValueError"
    /\ cache._filecache[".treeinfo"] = None
    /\ \E p \in DOMAIN tree : tree[p].kind = "OSError"
    /\ pc = "raised"
    /\ Val(error).type = "OSError"

\* the manifests delivered mention Debian and never Ubuntu, and .disk/info,
\* if delivered, does not start with "Ubuntu"
DebianOnlyTree ==
    /\ \E p \in {"current/images/MANIFEST", "daily/MANIFEST"} :
        p \in DOMAIN tree /\ tree[p].kind = "ok"
    /\ \A p \in {"current/images/MANIFEST", "daily/MANIFEST"} :
        (p \in DOMAIN tree /\ tree[p].kind = "ok") =>
            /\ contains(tree[p].text, "ebian")
            /\ ~contains(tree[p].text, "buntu")
    /\ (".disk/info" \in DOMAIN tree /\ tree[".disk/info"].kind = "ok") =>
            ~startswith(tree[".disk/info"].text, "Ubuntu")

\* C6: UbuntuDistro.is_valid is false for every tree whose manifests mention
\* Debian but never Ubuntu and whose .disk/info does not start with
\* "Ubuntu".
C6_UbuntuInvalidOnDebianTree ==
    DebianOnlyTree =>
        \A k \in 1..Len(evalLog) :
            evalLog[k].cls = "UbuntuDistro" => evalLog[k].verdict # "true"

\* the content file was delivered by the transport
ContentFetched == "content" \in DOMAIN tree /\ tree["content"].kind = "ok"

\* C7: for every SUSE content file that was fetched, also one from which no
\* product name can be read, each SUSE class's is_valid returns a boolean
\* and raises nothing.
C7_SuseIsValidNeverRaises ==
    ContentFetched =>
        \A k \in 1..Len(evalLog) :
            evalLog[k].cls \in SuseClasses => evalLog[k].verdict # "raise"

\* the transport reported the last candidate acquireBootISO asked about as
\* existing
IsoCandidateFound(r) ==
    r.probes # <<>> /\ r.probes[Len(r.probes)].answer = "yes"

\* C10: for every store getDistroStore can return, also a DebianDistro or
\* UbuntuDistro selected through the "disk" media type, acquireBootISO asks
\* about the candidates in list order and, unless the transport fails to
\* deliver it, returns the first one reported as existing; when none
\* exists or the store has no candidates it fails with the "Could not find
\* boot.iso" error naming the pretty name, and never with another error.
C10_BootIsoFoundOrNotFoundError ==
    (pc = "iso_done" /\ Val(store).cls \in DebianClasses) =>
        LET r == Val(iso)
        IN  /\ \A k \in 1..Len(r.probes) : r.probes[k].path = k
            /\ \A k \in 1..(Len(r.probes) - 1) : r.probes[k].answer = "no"
            /\ IsoCandidateFound(r) =>
                  \/ r.exc = NoExc /\ r.ret = Len(r.probes)
                  \/ r.exc \in AcquireFileAnswers \ {"ok"}
            /\ ~IsoCandidateFound(r) =>
                  /\ r.exc = "RuntimeError"
                  /\ r.msg = "Could not find boot.iso"
                  /\ r.distro = PRETTY_NAME(Val(store).cls)

(***************************************************************************)
(* Properties of acquireKernel (under Spec)                                *)
(***************************************************************************)
\* the transport reported both files of the probed pair as existing
BothReported(p) == p.kernel /\ p.initrd = "yes"

\* C11: acquireKernel probes the candidate pairs in list order; every pair
\* it passes over had a file the transport did not report as existing; the
\* pair it takes is the first for which both files were reported, and a
\* normal return hands back that pair; when no pair has both files it fails
\* with the "Couldn't find kernel" error naming the pretty name and has
\* called acquireFile for nothing.
C11_FirstExistingPairChosen ==
    pc = "kernel_done" =>
        LET k == Val(kernel)
            paths == Val(Val(store)._kernel_paths)
            n == Len(k.probes)
        IN  /\ n <= Len(paths)
            /\ \A j \in 1..n : k.probes[j].pair = j
            /\ \A j \in 1..(n - 1) : ~BothReported(k.probes[j])
            /\ IF n > 0 /\ BothReported(k.probes[n])
               THEN /\ k.pair = n
                    /\ k.exc # "RuntimeError"
                    /\ k.exc = NoExc =>
                        /\ Val(k.ret)[1] = paths[n][1]
                        /\ Val(k.ret)[2] = paths[n][2]
               ELSE /\ n = Len(paths)
                    /\ k.exc = "RuntimeError"
                    /\ k.msg = "Couldn't find kernel"
                    /\ k.distro = PRETTY_NAME(Val(store).cls)
                    /\ k.distro # None
                    /\ k.fetched = <<>>
                    /\ k.files = {}

\* a first pair with the kernel but no initrd and a second pair without the
\* kernel were passed over, and the third pair was returned
C11_Witness ==
    /\ pc = "kernel_done"
    /\ Val(kernel).exc = NoExc
    /\ Val(kernel).pair = 3
    /\ Val(kernel).probes[1].kernel
    /\ Val(kernel).probes[1].initrd = "no"
    /\ ~Val(kernel).probes[2].kernel
    /\ Val(kernel).ret =
        Some(<<"boot/x86_64/loader/linux", "boot/x86_64/loader/initrd",
               "install=" \o Sample.uri_debian>>)

\* C16: acquireKernel calls acquireFile for the kernel of the pair it took
\* first and for the initrd only after the kernel was delivered; when the
\* initrd's acquireFile raises, that error ends the call and the kernel's
\* local copy is gone; no acquireKernel call that ends with an error
\* leaves a local file behind.
C16_FailedAcquireLeavesNoKernel ==
    pc = "kernel_done" =>
        LET k == Val(kernel)
            paths == Val(Val(store)._kernel_paths)
        IN  /\ Len(k.fetched) = Len(k.answers)
            /\ Len(k.fetched) <= 2
            /\ Len(k.fetched) >= 1 =>
                /\ k.pair \in 1..Len(paths)
                /\ k.fetched[1] = paths[k.pair][1]
            /\ Len(k.fetched) = 2 =>
                /\ k.answers[1] = "ok"
                /\ k.fetched[2] = paths[k.pair][2]
            /\ (Len(k.fetched) = 2 /\ k.answers[2] # "ok") =>
                /\ k.exc = k.answers[2]
                /\ k.fetched[1] \notin k.files
            /\ k.exc # NoExc => k.files = {}
            /\ k.exc = NoExc => k.files = {k.fetched[1], k.fetched[2]}

\* the kernel was delivered, the initrd's acquireFile raised OSError: the
\* call ended with OSError and no local file
C16_Witness ==
    /\ pc = "kernel_done"
    /\ Val(kernel).answers = <<"ok", "OSError">>
    /\ Val(kernel).fetched =
        <<"images/pxeboot/vmlinuz", "images/pxeboot/initrd.img">>
    /\ Val(kernel).exc = "OSError"
    /\ Val(kernel).files = {}

(***************************************************************************)
(* Properties of the Debian family's os_variant (under Spec)               *)
(***************************************************************************)
\* getDistroStore returned a Debian-family store selected through the
\* "daily" manifest
DailySelected ==
    /\ pc \in {"returned", "iso_done", "kernel_done"}
    /\ Val(store).cls \in DebianClasses
    /\ cache.debian_media_type = Some("daily")

\* the positions of the catalog entries whose name starts with prefix
EntriesNamed(prefix) ==
    {i \in 1..Len(osdb) : startswith(osdb[i].name, prefix)}

\* C12: a Debian-family store selected through the "daily" manifest has as
\* os_variant the name of the first catalog entry, in catalog order, whose
\* name starts with the family name of the class ("debian", "ubuntu"); the
\* value is determined by the class and the catalog alone, so it is the
\* same at every tree URL, also at one that names another release.
C12_DailyVariantIgnoresUrl ==
    DailySelected =>
        LET family == IF Val(store).cls = "UbuntuDistro" THEN "ubuntu"
                      ELSE "debian"
        IN  \E i \in EntriesNamed(family) :
                /\ \A j \in EntriesNamed(family) : i <= j
                /\ Val(store).os_variant = Some(osdb[i].name)

\* a DebianDistro selected through the daily manifest at a URL that names
\* the codename of debian8 got debian9, the first Debian entry
C12_Witness ==
    /\ DailySelected
    /\ Val(store).cls = "DebianDistro"
    /\ contains(uri, "/jessie/")
    /\ osdb[8].name = "debian8"
    /\ Val(store).os_variant = Some("debian9")

(***************************************************************************)
(* Properties of the constructors (under Spec)                             *)
(***************************************************************************)
\* C15: whenever the is_valid of some class returned true during
\* getDistroStore, the call returns a store of that class: constructing
\* the class raises nothing for any tree content that passed is_valid,
\* also for a SUSE content file with a product name but no BASEARCHS,
\* DEFAULTBASE or REPOID line, or with a version that is no number.
C15_ValidVariantIsConstructed ==
    \A k \in 1..Len(evalLog) :
        evalLog[k].verdict = "true" =>
            /\ error = None
            /\ pc \in {"returned", "iso_done", "kernel_done"}
            /\ Val(store).cls = evalLog[k].cls

(***************************************************************************)
(* Properties of the version inference (under SpecVersion)                 *)
(***************************************************************************)
\* the updates u <= U for which the catalog knows <prefix>M.u
KnownUpdates(prefix, M, U) ==
    {u \in 0..U :
        \E i \in 1..Len(osdb) :
            osdb[i].name = prefix \o str(M) \o "." \o str(u)}

\* C8: for a RHEL/CentOS tree with version "M.U" the os_variant found is
\* "<prefix>M.u" for the greatest u in 0..U such that the catalog knows
\* "<prefix>M.u", and is absent when the catalog knows none; the backward
\* search ends: it makes at most U + 1 lookups, each for a smaller update.
C8_GreatestKnownUpdate ==
    \A M \in Majors, U \in 0..(MaxUpdate + 1) :
        (/\ dv.cls \in {"RHELDistro", "CentOSDistro"}
         /\ dv.treeinfo_version = Some(str(M) \o "." \o str(U))
         /\ dv.pc \in {"while", "done"}) =>
            LET prefix == IF dv.cls = "RHELDistro" THEN "rhel" ELSE "centos"
                known == KnownUpdates(prefix, M, U)
            IN  /\ Len(dv.tried) <= U + 1
                /\ \A k \in 1..Len(dv.tried) :
                    dv.tried[k] = prefix \o str(M) \o "." \o str(U + 1 - k)
                /\ dv.pc = "while" => dv.update = U - Len(dv.tried)
                /\ dv.pc = "done" =>
                    IF known = {} THEN dv.os_variant = None
                    ELSE \E u \in known :
                            /\ \A x \in known : x <= u
                            /\ dv.os_variant =
                                Some(prefix \o str(M) \o "." \o str(u))

\* a RHEL tree 7.U whose update the catalog does not know ended on an older
\* update after more than one lookup
C8_Witness ==
    /\ dv.pc = "done"
    /\ dv.cls = "RHELDistro"
    /\ dv.treeinfo_version = Some("7.3")
    /\ dv.os_variant = Some("rhel7.1")
    /\ Len(dv.tried) = 3

\* the version _detect_version parsed is below n (an absent one is not)
ParsedBelow(n) == dv._version_number # None /\ Val(dv._version_number) < n

\* C13 as stated: for a tree-descriptor class the kernel-argument name is
\* "method" exactly when the class is Fedora with parsed version < 19 or a
\* RHEL-family class with parsed major version < 7, for every non-negative
\* parsed version, 0 included; it is "inst.repo" in every other case.
C13_LegacyArgBelowThreshold ==
    dv.pc = "arg" =>
        dv.kernel_url_arg =
            IF \/ dv.cls = "FedoraDistro" /\ ParsedBelow(19)
               \/ dv.cls \in {"RHELDistro", "CentOSDistro"} /\ ParsedBelow(7)
            THEN Some("method")
            ELSE Some("inst.repo")

\* C13 as amended: the name is "method" exactly when the parsed version is
\* not 0 and the class is Fedora with parsed version < 19 or a RHEL-family
\* class with parsed major version < 7; it is "inst.repo" in every other
\* case: a parsed version of 0, an absent version, the generic class.
C13_LegacyArgForNonZeroVersion ==
    dv.pc = "arg" =>
        dv.kernel_url_arg =
            IF /\ dv._version_number # Some(0)
               /\ \/ dv.cls = "FedoraDistro" /\ ParsedBelow(19)
                  \/ dv.cls \in {"RHELDistro", "CentOSDistro"}
                        /\ ParsedBelow(7)
            THEN Some("method")
            ELSE Some("inst.repo")

\* a RHEL tree whose version is no number parsed to 0 and got the modern
\* name
C13_Witness ==
    /\ dv.pc = "arg"
    /\ dv.cls = "RHELDistro"
    /\ dv.treeinfo_version = Some("6Server")
    /\ dv._version_number = Some(0)
    /\ dv.kernel_url_arg = Some("inst.repo")

\* the greatest Fedora number the catalog knows
LatestKnownFedora ==
    CHOOSE n \in (MaxFedora - 2)..MaxFedora :
        /\ \E i \in 1..Len(osdb) : osdb[i].name = "fedora" \o str(n)
        /\ \A m \in (MaxFedora - 2)..MaxFedora :
            (\E i \in 1..Len(osdb) : osdb[i].name = "fedora" \o str(m)) =>
                m <= n

\* C9: for a Fedora tree os_variant is the catalog's latest Fedora
\* identifier when the version is absent, is development, rawhide or
\* Rawhide, is no integer string or is an integer above the latest known
\* one; otherwise it is "fedora<N>" for the integer N; it never names a
\* Fedora number above the latest known one.
C9_FedoraVariantClamped ==
    (dv.cls = "FedoraDistro" /\ dv.pc = "done") =>
        LET v == dv.treeinfo_version
            latest == LatestKnownFedora
            N == DigitsValue(Val(v))
            useLatest ==
                \/ v \in {None, Some("")}
                \/ Val(v) \in {"development", "rawhide", "Rawhide"}
                \/ ~isdigit(Val(v))
                \/ N > latest
        IN  /\ dv.os_variant =
                Some("fedora" \o str(IF useLatest THEN latest ELSE N))
            /\ \E n \in 0..latest : dv.os_variant = Some("fedora" \o str(n))

\* a Fedora tree whose version is above the latest known number got the
\* latest known identifier
C9_Witness ==
    /\ dv.pc = "done"
    /\ dv.cls = "FedoraDistro"
    /\ dv.treeinfo_version = Some(str(MaxFedora + 1))
    /\ dv.os_variant = Some("fedora" \o str(MaxFedora))

(***************************************************************************)
(* Properties of the SUSE version inference (under SpecSuse)               *)
(***************************************************************************)
\* _variantFromVersion has run on an object of class cls for a content
\* file whose product name is that of cls with this major and service pack
EnterpriseVariantDerived(cls, major, sp) ==
    /\ pc = "suse_done"
    /\ stores = <<cls>>
    /\ cache.suse_content.product_name = Some(SuseProductName(cls, major, sp))

\* C14 as stated: for SLESDistro and SLEDDistro a product name
\* "<four words> <major> SP<n>" with major >= 10 gives the os_variant
\* "<urldistro><major>sp<n>", and a product name without a service-pack
\* token gives "<urldistro><major>".
C14_EnterpriseVariantHasServicePack ==
    \A cls \in {"SLESDistro", "SLEDDistro"}, major \in 10..MaxSuseMajor,
       sp \in ServicePacks :
        EnterpriseVariantDerived(cls, major, sp) =>
            /\ error = None
            /\ Val(store).os_variant =
                Some((IF cls = "SLESDistro" THEN "sles" ELSE "sled")
                     \o str(major)
                     \o (IF sp = 0 THEN "" ELSE "sp" \o str(sp)))

\* C14 as amended: the suffix is "sp" and the first digit of <n>, which is
\* "sp<n>" for the service packs 1 to 9; a product name without a
\* service-pack token gives "<urldistro><major>".
C14_EnterpriseVariantHasServicePackDigit ==
    \A cls \in {"SLESDistro", "SLEDDistro"}, major \in 10..MaxSuseMajor,
       sp \in ServicePacks :
        EnterpriseVariantDerived(cls, major, sp) =>
            /\ error = None
            /\ Val(store).os_variant =
                Some((IF cls = "SLESDistro" THEN "sles" ELSE "sled")
                     \o str(major)
                     \o (IF sp = 0 THEN ""
                         ELSE IF sp < 10 THEN "sp" \o str(sp)
                         ELSE "sp" \o str(sp \div 10)))

\* the LABEL "SUSE Linux Enterprise Server 11 SP4" gave sles11sp4
C14_Witness ==
    /\ pc = "suse_done"
    /\ stores = <<"SLESDistro">>
    /\ cache.suse_content.product_name =
        Some("SUSE Linux Enterprise Server 11 SP4")
    /\ cache.suse_content.product_version = Some("11.4")
    /\ Val(store).os_variant = Some("sles11sp4")

====
